---- MODULE Spec2Model ----
(***************************************************************************)
(* The local application state store of the daily planner: the reducer,    *)
(* the StoreProvider callbacks that close over the rendered state, the     *)
(* load/save effects and the AsyncStorage keys they read and write.        *)
(***************************************************************************)
EXTENDS Integers, Sequences, FiniteSets, TLC

(***************************************************************************)
(* Bounds of the model.                                                    *)
(***************************************************************************)
MaxTime == 1        \* the clock takes the values 0..MaxTime
MaxRand == 2        \* number of distinct outcomes of Math.random()
MaxCalls == 2       \* number of store calls issued by the UI
MaxClears == 2      \* number of clearAllData calls among them
TicksPerDay == 24   \* clock ticks (hours) per UTC calendar day
MaxWeek == 2        \* week keys 1..MaxWeek the week screen can display
MaxRejects == 1     \* number of setItem calls storage rejects
MaxQueries == 2     \* queries called in one behaviour
SecondsPerMinute == 1  \* ticks of the countdown's interval per minute of duration

(***************************************************************************)
(* Values.                                                                 *)
(***************************************************************************)
\* JavaScript null, in a field that otherwise holds an ISO timestamp
null == <<>>

\* new Date(t).toISOString(): the ISO text of instant t; texts of distinct
\* instants differ and compare like the instants
toISOString(t) == <<t>>

\* JavaScript undefined, in an optional text field
undefined == "undefined"

STORAGE_KEYS ==
  {"TASKS", "SESSIONS", "WEEKLY_GOALS", "WEEKLY_REFLECTIONS", "YEAR_GOALS", "SETTINGS"}

\* the state field persisted under a storage key
FieldOf(k) ==
  CASE k = "TASKS" -> "tasks"
    [] k = "SESSIONS" -> "sessions"
    [] k = "WEEKLY_GOALS" -> "weeklyGoals"
    [] k = "WEEKLY_REFLECTIONS" -> "weeklyReflections"
    [] k = "YEAR_GOALS" -> "yearGoals"
    [] k = "SETTINGS" -> "settings"

Collections == {"tasks", "sessions", "weeklyGoals", "weeklyReflections", "yearGoals"}

Deps == Collections \cup {"settings"}

DEFAULT_SETTINGS ==
  [defaultPomodoroMinutes |-> 25, maxPomodoroMinutes |-> 60,
   voiceEnabled |-> TRUE, vibrationEnabled |-> TRUE, darkMode |-> FALSE]

initialState ==
  [tasks |-> <<>>, sessions |-> <<>>, weeklyGoals |-> <<>>,
   weeklyReflections |-> <<>>, yearGoals |-> <<>>,
   settings |-> DEFAULT_SETTINGS, isLoading |-> TRUE]

(***************************************************************************)
(* JavaScript helpers.                                                     *)
(***************************************************************************)
\* object spread { ...a, ...b }
Spread(a, b) ==
  [k \in (DOMAIN a) \cup (DOMAIN b) |-> IF k \in DOMAIN b THEN b[k] ELSE a[k]]

\* Math.max and Math.min of two numbers
Max(a, b) == IF a >= b THEN a ELSE b

Min(a, b) == IF a <= b THEN a ELSE b

\* a map that appends the payload when no element has its id
MapReplaceOrAppend(arr, payload) ==
  IF \E i \in 1..Len(arr) : arr[i].id = payload.id
  THEN [i \in 1..Len(arr) |-> IF arr[i].id = payload.id THEN payload ELSE arr[i]]
  ELSE Append(arr, payload)

\* Array.prototype.map replacing the elements with the payload's id
MapReplace(arr, payload) ==
  [i \in 1..Len(arr) |-> IF arr[i].id = payload.id THEN payload ELSE arr[i]]

\* Array.prototype.filter keeping the elements with another id
FilterOut(arr, id) == SelectSeq(arr, LAMBDA x : x.id # id)

\* index of the element Array.prototype.find returns for the test
\* x[field] === value, 0 when it returns undefined
FindIndex(arr, field, value) ==
  LET hits == {i \in 1..Len(arr) : arr[i][field] = value}
  IN  IF hits = {} THEN 0 ELSE CHOOSE i \in hits : \A j \in hits : i <= j

(***************************************************************************)
(* The reducer.                                                            *)
(***************************************************************************)
appReducer(s, action) ==
  CASE action.type = "SET_LOADING" ->
         [s EXCEPT !.isLoading = action.payload]
    [] action.type = "LOAD_DATA" ->
         [Spread(s, action.payload) EXCEPT !.isLoading = FALSE]
    [] action.type = "ADD_TASK" ->
         [s EXCEPT !.tasks = Append(s.tasks, action.payload)]
    [] action.type = "UPDATE_TASK" ->
         [s EXCEPT !.tasks = MapReplace(s.tasks, action.payload)]
    [] action.type = "DELETE_TASK" ->
         [s EXCEPT !.tasks = FilterOut(s.tasks, action.payload)]
    [] action.type = "ADD_SESSION" ->
         [s EXCEPT !.sessions = Append(s.sessions, action.payload)]
    [] action.type = "ADD_WEEKLY_GOAL" ->
         [s EXCEPT !.weeklyGoals = Append(s.weeklyGoals, action.payload)]
    [] action.type = "UPDATE_WEEKLY_GOAL" ->
         [s EXCEPT !.weeklyGoals = MapReplace(s.weeklyGoals, action.payload)]
    [] action.type = "DELETE_WEEKLY_GOAL" ->
         [s EXCEPT !.weeklyGoals = FilterOut(s.weeklyGoals, action.payload)]
    [] action.type = "ADD_WEEKLY_REFLECTION" ->
         [s EXCEPT !.weeklyReflections = Append(s.weeklyReflections, action.payload)]
    [] action.type = "UPDATE_WEEKLY_REFLECTION" ->
         [s EXCEPT !.weeklyReflections = MapReplace(s.weeklyReflections, action.payload)]
    [] action.type = "ADD_YEAR_GOAL" ->
         [s EXCEPT !.yearGoals = Append(s.yearGoals, action.payload)]
    [] action.type = "UPDATE_YEAR_GOAL" ->
         [s EXCEPT !.yearGoals = MapReplace(s.yearGoals, action.payload)]
    [] action.type = "DELETE_YEAR_GOAL" ->
         [s EXCEPT !.yearGoals = FilterOut(s.yearGoals, action.payload)]
    [] action.type = "UPDATE_SETTINGS" ->
         [s EXCEPT !.settings = Spread(s.settings, action.payload)]
    [] action.type = "CLEAR_ALL_DATA" ->
         [initialState EXCEPT !.isLoading = FALSE]
    [] OTHER -> s

\* the state fields for which the reducer returns a new object (a reference
\* that differs from the one the state held before the action)
NewObjects(action) ==
  CASE action.type \in {"ADD_TASK", "UPDATE_TASK", "DELETE_TASK"} -> {"tasks"}
    [] action.type = "ADD_SESSION" -> {"sessions"}
    [] action.type \in {"ADD_WEEKLY_GOAL", "UPDATE_WEEKLY_GOAL", "DELETE_WEEKLY_GOAL"} ->
         {"weeklyGoals"}
    [] action.type \in {"ADD_WEEKLY_REFLECTION", "UPDATE_WEEKLY_REFLECTION"} ->
         {"weeklyReflections"}
    [] action.type \in {"ADD_YEAR_GOAL", "UPDATE_YEAR_GOAL", "DELETE_YEAR_GOAL"} ->
         {"yearGoals"}
    [] action.type = "UPDATE_SETTINGS" -> {"settings"}
    [] action.type = "LOAD_DATA" -> Collections \cup action.fresh
    [] OTHER -> {}

\* the state fields that hold the very objects of initialState after the action
InitialObjects(action) ==
  CASE action.type = "CLEAR_ALL_DATA" -> Deps
    [] action.type = "LOAD_DATA" -> {"settings"} \ action.fresh
    [] OTHER -> {}

(***************************************************************************)
(* JSON text held by AsyncStorage.                                         *)
(***************************************************************************)
\* getItem's result for a key that does not exist
Absent == [kind |-> "absent"]

\* a stored text that JSON.parse rejects
Corrupt == [kind |-> "corrupt"]

OptionalFields == {"category", "notes", "mission", "vision", "userName", "userAvatar"}

\* JSON.stringify of an object: a property whose value is undefined is left out
StringifyObject(obj) ==
  [k \in {f \in DOMAIN obj : ~(f \in OptionalFields /\ obj[f] = undefined)} |-> obj[k]]

\* JSON.stringify of one state field: an array of records, or the settings object
JSONstringify(field, value) ==
  [kind |-> "json",
   text |-> IF field = "settings" THEN StringifyObject(value)
            ELSE [i \in 1..Len(value) |-> StringifyObject(value[i])]]

\* JSON.parse of a text JSON.stringify produced
JSONparse(item) == item.text

\* reading property f of a JavaScript object: undefined when it has none
Get(obj, f) == IF f \in DOMAIN obj THEN obj[f] ELSE undefined

(***************************************************************************)
(* State.                                                                  *)
(***************************************************************************)
VARIABLES
  now,               \* Date.now()
  state,             \* the reducer's state
  rendered,          \* the state of the last render, which the callbacks close over
  initObjs,          \* fields of state that hold the objects of initialState
  renderedInitObjs,  \* the same for rendered
  changed,           \* effect dependencies whose object differs from the rendered one
  storage,           \* AsyncStorage: key -> stored text, or Absent
  writes,            \* the texts of the setItem calls in flight, by key
  load,              \* loadData: its position and what its reads may return
  clear,             \* clearAllData calls: position and removeItem calls in flight
  saved,             \* the states saveData was called with
  nRejected,         \* number of setItem calls rejected
  calls,             \* the last two store calls, each with the state it was made in
  nCalls,            \* number of store calls made
  focus,             \* the focus screen's own state (useState)
  zone,              \* the device's local time zone
  query              \* the last query called, with its argument and result

vars ==
  <<now, state, rendered, initObjs, renderedInitObjs, changed, storage, writes,
    load, clear, saved, nRejected, calls, nCalls, focus, zone, query>>

ioVars == <<storage, writes, load, clear, saved, nRejected>>

(***************************************************************************)
(* Time zones.  now counts the hours since an epoch whose day 0 is a       *)
(* Monday; a date key YYYY-MM-DD is held as the number of its day.         *)
(***************************************************************************)
\* a time zone: local time is UTC + before until the instant at, and
\* UTC + after from then on
UTC == [before |-> 0, after |-> 0, at |-> 0]

\* a zone whose offset never changes
Fixed(offset) == [before |-> offset, after |-> offset, at |-> 0]

\* the hours local time is ahead of UTC at the instant t
Offset(z, t) == IF t < z.at THEN z.before ELSE z.after

\* the local wall-clock time of the instant t, in hours
LocalTime(z, t) == t + Offset(z, t)

\* the instant of a local wall-clock time; a time the clocks skip or repeat
\* is read with the offset in force before the transition
UTCOf(z, local) ==
  IF local - z.before < z.at THEN local - z.before
  ELSE IF local - z.after >= z.at THEN local - z.after
  ELSE local - z.before

\* new Date("YYYY-MM-DD"): a date-only text is midnight UTC of that day
DateParse(key) == key * TicksPerDay

\* date.toISOString().split("T")[0]: the UTC calendar day of the instant
toISODate(t) == t \div TicksPerDay

\* date.getDate(), counted as a day number: the local calendar day
getDate(z, t) == LocalTime(z, t) \div TicksPerDay

\* date.getDay(): the local day of the week, 0 for Sunday
getDay(z, t) == (getDate(z, t) + 1) % 7

\* date.setDate(n): the local day becomes n, the local time of day stays
setDate(z, t, n) == UTCOf(z, (n * TicksPerDay) + (LocalTime(z, t) % TicksPerDay))

\* no query was called yet
NoQuery == [op |-> "none", n |-> 0, again |-> FALSE]

(***************************************************************************)
(* The focus screen's state.                                               *)
(***************************************************************************)
\* a value of type number | null or string | null that is not null
Some(v) == <<v>>

\* the minutes the focus screen's slider offers
TIME_OPTIONS == [i \in 1..12 |-> i * 5]

\* Array.prototype.indexOf: the first index, counted from 0, or -1
IndexOf(arr, v) ==
  LET hits == {i \in 1..Len(arr) : arr[i] = v}
  IN  IF hits = {} THEN -1 ELSE (CHOOSE i \in hits : \A j \in hits : i <= j) - 1

\* the useState cells the focus screen's handlers and effects read from the
\* render that created them
CellNames ==
  {"selectedIndex", "duration", "status", "showFeedback", "energyScore", "energyTag",
   "sessionStartTime"}

Cells(f) == [c \in CellNames |-> f[c]]

\* the focus screen when it is mounted with the given settings: its useState
\* cells, the cells as its render captured them (seen), and whether the
\* countdown's interval is set (timer)
FocusMounted(settings) ==
  LET defaultIndex == IndexOf(TIME_OPTIONS, settings.defaultPomodoroMinutes)
      initialIndex == IF defaultIndex >= 0 THEN defaultIndex ELSE 4
      cells == [selectedIndex |-> initialIndex, duration |-> TIME_OPTIONS[initialIndex + 1],
                status |-> "idle", showFeedback |-> FALSE, energyScore |-> null,
                energyTag |-> null, sessionStartTime |-> null]
  IN  Spread(cells, [remainingSeconds |-> cells.duration * SecondsPerMinute,
                     timer |-> FALSE, seen |-> cells])

\* the focus screen mounted while the store holds its initial state
FocusInit == FocusMounted(DEFAULT_SETTINGS)

(***************************************************************************)
(* What storage may hold when the app starts.                              *)
(***************************************************************************)
\* records written by an earlier run of the app (its clock read -1)
OldTask ==
  [id |-> <<-1, 0>>, title |-> "Write spec", isCompleted |-> FALSE, isTop3 |-> TRUE,
   createdAt |-> toISOString(-1), completedAt |-> null, date |-> -1]

OldReflection ==
  [id |-> <<-1, 1>>, weekStartDate |-> 1, focusMinutesAuto |-> 25,
   top3Achievements |-> <<"a">>, gratitude3 |-> <<>>, distractions |-> <<>>,
   createdAt |-> toISOString(-1)]

OldState ==
  [initialState EXCEPT !.tasks = <<OldTask>>, !.weeklyReflections = <<OldReflection>>,
                       !.settings = Spread(DEFAULT_SETTINGS, [darkMode |-> TRUE])]

EmptyStorage == [k \in STORAGE_KEYS |-> Absent]

OldStorage == [k \in STORAGE_KEYS |-> JSONstringify(FieldOf(k), OldState[FieldOf(k)])]

InitStorages ==
  {EmptyStorage, OldStorage,
   [OldStorage EXCEPT !["SETTINGS"] = Absent],
   [OldStorage EXCEPT !["TASKS"] = Corrupt]}

Init ==
  /\ now = 0
  /\ state = initialState
  /\ rendered = initialState
  /\ initObjs = Deps
  /\ renderedInitObjs = Deps
  /\ changed = {}
  /\ storage \in InitStorages
  /\ writes = [k \in STORAGE_KEYS |-> {}]
  /\ load = [pc |-> "idle", seen |-> [k \in STORAGE_KEYS |-> {}]]
  /\ clear = [c \in 1..MaxClears |-> [pc |-> "idle", rem |-> {}]]
  /\ saved = {}
  /\ nRejected = 0
  /\ calls = <<>>
  /\ nCalls = 0
  /\ focus = FocusInit
  /\ zone = UTC
  /\ query = NoQuery

(***************************************************************************)
(* Helpers of the provider.                                                *)
(***************************************************************************)
\* Date.now().toString(36) + Math.random().toString(36).substr(2), r being
\* the outcome of Math.random(): the pair of the two texts
generateId(r) == <<now, r>>

\* new Date().toISOString().split('T')[0]: the UTC calendar day of the clock
getToday == now \div TicksPerDay

\* dispatch: the reducer's result becomes the state; the objects it created
\* differ from the rendered ones
Dispatch(action) ==
  /\ state' = appReducer(state, action)
  /\ initObjs' = (initObjs \ NewObjects(action)) \cup InitialObjects(action)
  /\ changed' = ((changed \cup NewObjects(action)) \ InitialObjects(action))
                  \cup (InitialObjects(action) \ renderedInitObjs)

NoDispatch == UNCHANGED <<state, initObjs, changed>>

\* a store call is counted and remembered together with the state it met
Called(op, arg) ==
  /\ nCalls < MaxCalls
  /\ nCalls' = nCalls + 1
  /\ calls' = LET all == Append(calls, [op |-> op, arg |-> arg, pre |-> state])
              IN  IF Len(all) > 2 THEN Tail(all) ELSE all

\* storage changes to s; a load still reading may observe the old or the new text
StorageBecomes(s) ==
  /\ storage' = s
  /\ load' = IF load.pc = "reading"
             THEN [load EXCEPT !.seen = [k \in STORAGE_KEYS |-> @[k] \cup {s[k]}]]
             ELSE load

(***************************************************************************)
(* Store calls.  A callback reads the state of the render that created it  *)
(* (rendered); the reducer works on the current state.                     *)
(***************************************************************************)
Titles == {"Write spec"}

\* an id no record has
NoSuchId == <<-2, 0>>

IdsOf(arr) == {arr[i].id : i \in 1..Len(arr)}

\* the today screen's handleAddTask: addTask with the fields the screen passes
handleAddTask(title, isTop3, r) ==
  LET task == [title |-> title, isCompleted |-> FALSE, isTop3 |-> isTop3,
               completedAt |-> null, date |-> getToday]
      newTask == Spread(task, [id |-> generateId(r), createdAt |-> toISOString(now)])
  IN  /\ Called("addTask", newTask.id)
      /\ Dispatch([type |-> "ADD_TASK", payload |-> newTask])
      /\ UNCHANGED <<zone, query, focus, now, rendered, renderedInitObjs>>
      /\ UNCHANGED ioVars

\* a toggleTask that stamps every toggle, also the one that un-completes
ToggledCompletedAtStampsAlways(task) == toISOString(now)

\* the completedAt toggleTask gives the updated task
ToggledCompletedAt(task) == IF ~task.isCompleted THEN toISOString(now) ELSE null

\* a toggleTask that also moves the task to today
toggleTaskRedating(taskId) ==
  LET i == FindIndex(rendered.tasks, "id", taskId)
  IN  /\ Called("toggleTask", taskId)
      /\ IF i # 0
         THEN LET task == rendered.tasks[i]
                  updatedTask == Spread(task, [isCompleted |-> ~task.isCompleted,
                                               completedAt |-> ToggledCompletedAt(task),
                                               date |-> getToday])
              IN  Dispatch([type |-> "UPDATE_TASK", payload |-> updatedTask])
         ELSE NoDispatch
      /\ UNCHANGED <<zone, query, focus, now, rendered, renderedInitObjs>>
      /\ UNCHANGED ioVars

toggleTask(taskId) ==
  LET i == FindIndex(rendered.tasks, "id", taskId)
  IN  /\ Called("toggleTask", taskId)
      /\ IF i # 0
         THEN LET task == rendered.tasks[i]
                  updatedTask == Spread(task, [isCompleted |-> ~task.isCompleted,
                                               completedAt |-> ToggledCompletedAt(task)])
              IN  Dispatch([type |-> "UPDATE_TASK", payload |-> updatedTask])
         ELSE NoDispatch
      /\ UNCHANGED <<zone, query, focus, now, rendered, renderedInitObjs>>
      /\ UNCHANGED ioVars

deleteTask(taskId) ==
  /\ Called("deleteTask", taskId)
  /\ Dispatch([type |-> "DELETE_TASK", payload |-> taskId])
  /\ UNCHANGED <<zone, query, focus, now, rendered, renderedInitObjs>>
  /\ UNCHANGED ioVars

\* what the week screen's handleSaveReflection may pass, besides the week
ReflectionForms ==
  {[focusMinutesAuto |-> 0, top3Achievements |-> <<>>, gratitude3 |-> <<>>,
    distractions |-> <<>>],
   [focusMinutesAuto |-> 25, top3Achievements |-> <<"a">>, gratitude3 |-> <<"g">>,
    distractions |-> <<>>]}

\* the index of the record the callback takes for the week's existing reflection
ExistingReflection(reflections, weekStartDate) ==
  FindIndex(reflections, "weekStartDate", weekStartDate)

saveWeeklyReflection(reflection, r) ==
  LET i == ExistingReflection(rendered.weeklyReflections, reflection.weekStartDate)
  IN  /\ Called("saveWeeklyReflection", reflection)
      /\ IF i # 0
         THEN Dispatch([type |-> "UPDATE_WEEKLY_REFLECTION",
                        payload |-> Spread(rendered.weeklyReflections[i], reflection)])
         ELSE Dispatch([type |-> "ADD_WEEKLY_REFLECTION",
                        payload |-> Spread(reflection,
                                           [id |-> generateId(r),
                                            createdAt |-> toISOString(now)])])
      /\ UNCHANGED <<zone, query, focus, now, rendered, renderedInitObjs>>
      /\ UNCHANGED ioVars

\* the texts the goals screen's mission field may hold
Missions == {"m"}

\* an updateSettings that resets the fields its argument does not name
updateSettingsResetting(settings) ==
  /\ Called("updateSettings", settings)
  /\ Dispatch([type |-> "UPDATE_SETTINGS", payload |-> Spread(DEFAULT_SETTINGS, settings)])
  /\ UNCHANGED <<zone, query, focus, now, rendered, renderedInitObjs>>
  /\ UNCHANGED ioVars

updateSettings(settings) ==
  /\ Called("updateSettings", settings)
  /\ Dispatch([type |-> "UPDATE_SETTINGS", payload |-> settings])
  /\ UNCHANGED <<zone, query, focus, now, rendered, renderedInitObjs>>
  /\ UNCHANGED ioVars

\* the goals screen's handleSaveMission
handleSaveMission(text) == updateSettings([mission |-> text])

\* the settings screen's handleDarkModeToggle, as far as the store goes
handleDarkModeToggle(value) == updateSettings([darkMode |-> value])

(***************************************************************************)
(* clearAllData: six removeItem calls, then CLEAR_ALL_DATA when all of     *)
(* them have resolved; the catch block when one is rejected.               *)
(***************************************************************************)
clearAllData(c) ==
  /\ clear[c].pc = "idle"
  /\ \A d \in 1..(c - 1) : clear[d].pc # "idle"
  /\ Called("clearAllData", c)
  /\ clear' = [clear EXCEPT ![c] = [pc |-> "removing", rem |-> STORAGE_KEYS]]
  /\ NoDispatch
  /\ UNCHANGED <<zone, query, focus, now, rendered, renderedInitObjs, storage, writes, load, saved,
                 nRejected>>

\* what clearAllData does when all its removeItem calls have resolved
ClearResolved == Dispatch([type |-> "CLEAR_ALL_DATA"])

\* removeItem(k) of call c resolves; the last one resumes clearAllData
RemoveItemResolves(c, k) ==
  /\ clear[c].pc \in {"removing", "failed"}
  /\ k \in clear[c].rem
  /\ StorageBecomes([storage EXCEPT ![k] = Absent])
  /\ LET rem == clear[c].rem \ {k}
     IN  IF clear[c].pc = "removing" /\ rem = {}
         THEN /\ clear' = [clear EXCEPT ![c] = [pc |-> "done", rem |-> {}]]
              /\ ClearResolved
         ELSE /\ clear' = [clear EXCEPT ![c].rem = rem]
              /\ NoDispatch
  /\ UNCHANGED <<zone, query, focus, now, rendered, renderedInitObjs, writes, saved, nRejected,
                 calls, nCalls>>

\* removeItem(k) of call c is rejected: Promise.all rejects, the catch block
\* logs, nothing is dispatched; the other removeItem calls stay in flight
RemoveItemRejects(c, k) ==
  /\ clear[c].pc \in {"removing", "failed"}
  /\ k \in clear[c].rem
  /\ clear' = [clear EXCEPT ![c] = [pc |-> "failed", rem |-> clear[c].rem \ {k}]]
  /\ NoDispatch
  /\ UNCHANGED <<zone, query, focus, now, rendered, renderedInitObjs, storage, writes, load, saved,
                 nRejected, calls, nCalls>>

(***************************************************************************)
(* loadData, started by the mount effect: six getItem calls, then          *)
(* LOAD_DATA; the catch block when a read or JSON.parse fails.             *)
(***************************************************************************)
\* a loadData that leaves the stored settings aside
LoadPayloadIgnoresSettings(got) ==
  [f \in Deps |->
     LET k == CHOOSE key \in STORAGE_KEYS : FieldOf(key) = f
     IN  IF f = "settings"
         THEN DEFAULT_SETTINGS
         ELSE IF got[k] # Absent THEN JSONparse(got[k]) ELSE <<>>]

\* the LOAD_DATA payload built from the six texts read
LoadPayload(got) ==
  [f \in Deps |->
     LET k == CHOOSE key \in STORAGE_KEYS : FieldOf(key) = f
     IN  IF f = "settings"
         THEN IF got[k] # Absent THEN Spread(DEFAULT_SETTINGS, JSONparse(got[k]))
              ELSE DEFAULT_SETTINGS
         ELSE IF got[k] # Absent THEN JSONparse(got[k]) ELSE <<>>]

\* JSON.parse throws on one of the texts read
ParseThrows(got) == \E k \in STORAGE_KEYS : got[k] = Corrupt

\* a loadData whose catch block leaves the loading flag set
LoadActionKeepsLoading(got) ==
  IF ParseThrows(got)
  THEN [type |-> "SET_LOADING", payload |-> TRUE]
  ELSE [type |-> "LOAD_DATA", payload |-> LoadPayload(got),
        fresh |-> IF got["SETTINGS"] # Absent THEN {"settings"} ELSE {}]

\* the action loadData dispatches once the six texts are read; fresh names
\* the settings object when it is not DEFAULT_SETTINGS itself
LoadAction(got) ==
  IF ParseThrows(got)
  THEN [type |-> "SET_LOADING", payload |-> FALSE]
  ELSE [type |-> "LOAD_DATA", payload |-> LoadPayload(got),
        fresh |-> IF got["SETTINGS"] # Absent THEN {"settings"} ELSE {}]

\* the mount effect calls loadData, which issues the six getItem calls (the
\* save effect runs too and does nothing, the state being loading)
Mount ==
  /\ load.pc = "idle"
  /\ load' = [pc |-> "reading", seen |-> [k \in STORAGE_KEYS |-> {storage[k]}]]
  /\ UNCHANGED <<zone, query, focus, now, state, rendered, initObjs, renderedInitObjs, changed, storage,
                 writes, clear, saved, nRejected, calls, nCalls>>

\* a loadData that keeps the sessions added while it was reading in front of
\* the sessions it read
LoadResolvesKeepingSessions ==
  /\ load.pc = "reading"
  /\ \E t \in load.seen["TASKS"], s \in load.seen["SESSIONS"],
        g \in load.seen["WEEKLY_GOALS"], w \in load.seen["WEEKLY_REFLECTIONS"],
        y \in load.seen["YEAR_GOALS"], a \in load.seen["SETTINGS"] :
       LET action == LoadAction([k \in STORAGE_KEYS |->
                       CASE k = "TASKS" -> t [] k = "SESSIONS" -> s
                         [] k = "WEEKLY_GOALS" -> g [] k = "WEEKLY_REFLECTIONS" -> w
                         [] k = "YEAR_GOALS" -> y [] k = "SETTINGS" -> a])
       IN  IF action.type = "LOAD_DATA"
           THEN Dispatch([action EXCEPT !.payload.sessions = state.sessions \o @])
           ELSE Dispatch(action)
  /\ load' = [pc |-> "done", seen |-> [k \in STORAGE_KEYS |-> {}]]
  /\ UNCHANGED <<zone, query, focus, now, rendered, renderedInitObjs, storage, writes, clear, saved,
                 nRejected, calls, nCalls>>

\* the six getItem calls have resolved; each returned a text its key held at
\* some moment since loadData started
LoadResolves ==
  /\ load.pc = "reading"
  /\ \E t \in load.seen["TASKS"], s \in load.seen["SESSIONS"],
        g \in load.seen["WEEKLY_GOALS"], w \in load.seen["WEEKLY_REFLECTIONS"],
        y \in load.seen["YEAR_GOALS"], a \in load.seen["SETTINGS"] :
       Dispatch(LoadAction([k \in STORAGE_KEYS |->
                  CASE k = "TASKS" -> t [] k = "SESSIONS" -> s
                    [] k = "WEEKLY_GOALS" -> g [] k = "WEEKLY_REFLECTIONS" -> w
                    [] k = "YEAR_GOALS" -> y [] k = "SETTINGS" -> a]))
  /\ load' = [pc |-> "done", seen |-> [k \in STORAGE_KEYS |-> {}]]
  /\ UNCHANGED <<zone, query, focus, now, rendered, renderedInitObjs, storage, writes, clear, saved,
                 nRejected, calls, nCalls>>

\* a getItem call is rejected
LoadRejects ==
  /\ load.pc = "reading"
  /\ Dispatch([type |-> "SET_LOADING", payload |-> FALSE])
  /\ load' = [pc |-> "rejected", seen |-> [k \in STORAGE_KEYS |-> {}]]
  /\ UNCHANGED <<zone, query, focus, now, rendered, renderedInitObjs, storage, writes, clear, saved,
                 nRejected, calls, nCalls>>

(***************************************************************************)
(* Rendering and the save effect.                                          *)
(***************************************************************************)
\* the six texts saveData passes to setItem
Snapshot(s) == [k \in STORAGE_KEYS |-> JSONstringify(FieldOf(k), s[FieldOf(k)])]

\* a save effect whose dependency list names the tasks only
SaveEffectWatchesTasksOnly(s, deps) == "tasks" \in deps /\ ~s.isLoading

\* the save effect runs when one of its dependencies is a new object, and
\* calls saveData unless the state is loading
SaveEffectRuns(s, deps) == deps # {} /\ ~s.isLoading

\* a render whose save effect calls saveData also while the state is loading
RenderSavingWhileLoading ==
  /\ state # rendered \/ changed # {}
  /\ rendered' = state
  /\ renderedInitObjs' = initObjs
  /\ changed' = {}
  /\ IF changed # {}
     THEN /\ writes' = [k \in STORAGE_KEYS |-> writes[k] \cup {Snapshot(state)[k]}]
          /\ saved' = saved \cup {state}
     ELSE UNCHANGED <<writes, saved>>
  /\ UNCHANGED <<zone, query, focus, now, state, initObjs, storage, load, clear, nRejected, calls, nCalls>>

\* React renders the provider with the current state and runs the save effect
Render ==
  /\ state # rendered \/ changed # {}
  /\ rendered' = state
  /\ renderedInitObjs' = initObjs
  /\ changed' = {}
  /\ IF SaveEffectRuns(state, changed)
     THEN /\ writes' = [k \in STORAGE_KEYS |-> writes[k] \cup {Snapshot(state)[k]}]
          /\ saved' = saved \cup {state}
     ELSE UNCHANGED <<writes, saved>>
  /\ UNCHANGED <<zone, query, focus, now, state, initObjs, storage, load, clear, nRejected, calls, nCalls>>

\* a setItem(k, item) call in flight resolves: its text is stored
SetItemResolves(k, item) ==
  /\ item \in writes[k]
  /\ writes' = [writes EXCEPT ![k] = @ \ {item}]
  /\ StorageBecomes([storage EXCEPT ![k] = item])
  /\ UNCHANGED <<zone, query, focus, now, state, rendered, initObjs, renderedInitObjs, changed, clear,
                 saved, nRejected, calls, nCalls>>

\* a saveData that issues the rejected setItem call again
SetItemRejectsAndRetries(k, item) ==
  /\ item \in writes[k]
  /\ nRejected < MaxRejects
  /\ writes' = writes
  /\ nRejected' = nRejected + 1
  /\ UNCHANGED <<zone, query, focus, now, state, rendered, initObjs, renderedInitObjs, changed, storage,
                 load, clear, saved, calls, nCalls>>

\* a setItem(k, item) call in flight is rejected: saveData logs the error
SetItemRejects(k, item) ==
  /\ item \in writes[k]
  /\ nRejected < MaxRejects
  /\ writes' = [writes EXCEPT ![k] = @ \ {item}]
  /\ nRejected' = nRejected + 1
  /\ UNCHANGED <<zone, query, focus, now, state, rendered, initObjs, renderedInitObjs, changed, storage,
                 load, clear, saved, calls, nCalls>>

\* the clock advances
Tick ==
  /\ now < MaxTime
  /\ now' = now + 1
  /\ UNCHANGED <<zone, query, focus, state, rendered, initObjs, renderedInitObjs, changed,
                 storage, writes, load, clear, saved, nRejected, calls, nCalls>>

(***************************************************************************)
(* Specifications.                                                         *)
(***************************************************************************)
Rands == 0..(MaxRand - 1)

Weeks == 1..MaxWeek

\* every screen that offers the task, reflection, settings and clear
\* handlers shows a spinner instead while the rendered state is loading
ScreenShown == ~rendered.isLoading

\* the ids of the tasks the rendered screen offers to toggle or delete
ShownTaskIds == IdsOf(rendered.tasks)

KeyRank(k) ==
  CASE k = "TASKS" -> 1
    [] k = "SESSIONS" -> 2
    [] k = "WEEKLY_GOALS" -> 3
    [] k = "WEEKLY_REFLECTIONS" -> 4
    [] k = "YEAR_GOALS" -> 5
    [] k = "SETTINGS" -> 6

\* no removeItem call is in flight
NoRemoval == \A c \in 1..MaxClears : clear[c].rem = {}

\* k is the first key, in the order of STORAGE_KEYS, call c still removes
FirstRemoval(c, k) == \A j \in clear[c].rem : KeyRank(k) <= KeyRank(j)

\* The task store.  Storage answers removeItem at once and in key order, and
\* setItem calls stay in flight: neither affects the state in memory.
Next ==
  \/ Mount
  \/ LoadResolves
  \/ LoadRejects
  \/ NoRemoval /\ Render
  \/ NoRemoval /\ Tick
  \/ \E title \in Titles, isTop3 \in {TRUE}, r \in Rands :
       ScreenShown /\ NoRemoval /\ handleAddTask(title, isTop3, r)
  \/ \E id \in ShownTaskIds : ScreenShown /\ NoRemoval /\ toggleTask(id)
  \/ \E id \in ShownTaskIds : ScreenShown /\ NoRemoval /\ deleteTask(id)
  \/ \E c \in 1..MaxClears : ScreenShown /\ NoRemoval /\ clearAllData(c)
  \/ \E c \in 1..MaxClears, k \in STORAGE_KEYS :
       FirstRemoval(c, k) /\ RemoveItemResolves(c, k)
  \/ \E c \in 1..MaxClears, k \in STORAGE_KEYS :
       FirstRemoval(c, k) /\ RemoveItemRejects(c, k)

Spec == Init /\ [][Next]_vars

\* The weekly reflections and the settings.
NextReflections ==
  \/ Mount
  \/ LoadResolves
  \/ LoadRejects
  \/ Render
  \/ Tick
  \/ \E w \in Weeks, form \in ReflectionForms, r \in Rands :
       ScreenShown /\ saveWeeklyReflection(Spread([weekStartDate |-> w], form), r)
  \/ \E text \in Missions : ScreenShown /\ handleSaveMission(text)
  \/ \E value \in BOOLEAN : ScreenShown /\ handleDarkModeToggle(value)

SpecReflections == Init /\ [][NextReflections]_vars

\* no setItem call is in flight
NoWrite == \A k \in STORAGE_KEYS : writes[k] = {}

\* k is the first key, in the order of STORAGE_KEYS, with a setItem call in flight
FirstWrite(k) == \A j \in STORAGE_KEYS : writes[j] # {} => KeyRank(k) <= KeyRank(j)

\* Saving: every setItem call in flight completes on its own, in any order;
\* a call that fails is the first one in key order.
NextStorage ==
  \/ Mount
  \/ LoadResolves
  \/ LoadRejects
  \/ Render
  \/ \E title \in Titles : ScreenShown /\ handleAddTask(title, TRUE, 0)
  \/ \E text \in Missions : ScreenShown /\ handleSaveMission(text)
  \/ \E k \in STORAGE_KEYS : \E item \in writes[k] : SetItemResolves(k, item)
  \/ \E k \in STORAGE_KEYS : \E item \in writes[k] : FirstWrite(k) /\ SetItemRejects(k, item)

SpecStorage == Init /\ [][NextStorage]_vars

\* Clearing: storage answers every call at once and in key order, never
\* failing.
NextClear ==
  \/ Mount
  \/ LoadResolves
  \/ NoRemoval /\ NoWrite /\ Render
  \/ \E title \in Titles : ScreenShown /\ NoRemoval /\ NoWrite /\ handleAddTask(title, TRUE, 0)
  \/ \E c \in 1..MaxClears : ScreenShown /\ NoRemoval /\ NoWrite /\ clearAllData(c)
  \/ \E c \in 1..MaxClears, k \in STORAGE_KEYS :
       FirstRemoval(c, k) /\ RemoveItemResolves(c, k)
  \/ \E k \in STORAGE_KEYS : \E item \in writes[k] :
       NoRemoval /\ FirstWrite(k) /\ SetItemResolves(k, item)

SpecClear == Init /\ [][NextClear]_vars

\* Loading: the task store, where storage reads complete.
FairSpec ==
  Spec /\ WF_vars(Mount) /\ WF_vars(LoadResolves \/ LoadRejects)

(***************************************************************************)
(* The weekly goals of the week screen and the year goals of the goals     *)
(* screen.                                                                 *)
(***************************************************************************)
\* records written by an earlier run of the app
OldWeeklyGoal ==
  [id |-> <<-1, 2>>, title |-> "Ship", isCompleted |-> FALSE,
   createdAt |-> toISOString(-1), weekStartDate |-> 1]

OldYearGoals ==
  <<[id |-> <<-1, 3>>, title |-> "Run", category |-> "health", progress |-> 40,
     isCompleted |-> FALSE, createdAt |-> toISOString(-1)],
    [id |-> <<-1, 4>>, title |-> "Read", progress |-> 0,
     isCompleted |-> FALSE, createdAt |-> toISOString(-1)]>>

GoalsState ==
  [OldState EXCEPT !.weeklyGoals = <<OldWeeklyGoal>>, !.yearGoals = OldYearGoals]

GoalsStorage == [k \in STORAGE_KEYS |-> JSONstringify(FieldOf(k), GoalsState[FieldOf(k)])]

\* the state after construction, storage holding one of the given contents
InitFrom(storages) ==
  /\ now = 0
  /\ state = initialState
  /\ rendered = initialState
  /\ initObjs = Deps
  /\ renderedInitObjs = Deps
  /\ changed = {}
  /\ storage \in storages
  /\ writes = [k \in STORAGE_KEYS |-> {}]
  /\ load = [pc |-> "idle", seen |-> [k \in STORAGE_KEYS |-> {}]]
  /\ clear = [c \in 1..MaxClears |-> [pc |-> "idle", rem |-> {}]]
  /\ saved = {}
  /\ nRejected = 0
  /\ calls = <<>>
  /\ nCalls = 0
  /\ focus = FocusInit
  /\ zone = UTC
  /\ query = NoQuery

\* the week screen's handleAddGoal: addWeeklyGoal for the displayed week
handleAddWeeklyGoal(title, w, r) ==
  LET goal == [title |-> title, isCompleted |-> FALSE, weekStartDate |-> w]
      newGoal == Spread(goal, [id |-> generateId(r), createdAt |-> toISOString(now)])
  IN  /\ Called("addWeeklyGoal", newGoal.id)
      /\ Dispatch([type |-> "ADD_WEEKLY_GOAL", payload |-> newGoal])
      /\ UNCHANGED <<zone, query, focus, now, rendered, renderedInitObjs>>
      /\ UNCHANGED ioVars

toggleWeeklyGoal(goalId) ==
  LET i == FindIndex(rendered.weeklyGoals, "id", goalId)
  IN  /\ Called("toggleWeeklyGoal", goalId)
      /\ IF i # 0
         THEN LET goal == rendered.weeklyGoals[i]
              IN  Dispatch([type |-> "UPDATE_WEEKLY_GOAL",
                            payload |-> Spread(goal, [isCompleted |-> ~goal.isCompleted])])
         ELSE NoDispatch
      /\ UNCHANGED <<zone, query, focus, now, rendered, renderedInitObjs>>
      /\ UNCHANGED ioVars

\* a deleteWeeklyGoal that also drops the tasks
deleteWeeklyGoalWithTasks(goalId) ==
  /\ Called("deleteWeeklyGoal", goalId)
  /\ Dispatch([type |-> "LOAD_DATA",
               payload |-> [weeklyGoals |-> FilterOut(state.weeklyGoals, goalId),
                            tasks |-> <<>>],
               fresh |-> {"settings"}])
  /\ UNCHANGED <<zone, query, focus, now, rendered, renderedInitObjs>>
  /\ UNCHANGED ioVars

deleteWeeklyGoal(goalId) ==
  /\ Called("deleteWeeklyGoal", goalId)
  /\ Dispatch([type |-> "DELETE_WEEKLY_GOAL", payload |-> goalId])
  /\ UNCHANGED <<zone, query, focus, now, rendered, renderedInitObjs>>
  /\ UNCHANGED ioVars

\* what the goals screen's form may hold when it is saved: category and
\* notes are undefined when their inputs are empty
GoalForms ==
  {[title |-> "Swim", category |-> undefined, progress |-> 60, notes |-> undefined],
   [title |-> "Write", category |-> "work", progress |-> 0, notes |-> "n"]}

\* an addYearGoal that puts the new goal first
addYearGoalFirst(goal, r) ==
  LET newGoal == Spread(goal, [id |-> generateId(r), createdAt |-> toISOString(now)])
  IN  /\ Called("addYearGoal", newGoal.id)
      /\ Dispatch([type |-> "LOAD_DATA",
                   payload |-> [yearGoals |-> <<newGoal>> \o state.yearGoals],
                   fresh |-> {"settings"}])
      /\ UNCHANGED <<zone, query, focus, now, rendered, renderedInitObjs>>
      /\ UNCHANGED ioVars

addYearGoal(goal, r) ==
  LET newGoal == Spread(goal, [id |-> generateId(r), createdAt |-> toISOString(now)])
  IN  /\ Called("addYearGoal", newGoal.id)
      /\ Dispatch([type |-> "ADD_YEAR_GOAL", payload |-> newGoal])
      /\ UNCHANGED <<zone, query, focus, now, rendered, renderedInitObjs>>
      /\ UNCHANGED ioVars

updateYearGoal(goal) ==
  /\ Called("updateYearGoal", goal)
  /\ Dispatch([type |-> "UPDATE_YEAR_GOAL", payload |-> goal])
  /\ UNCHANGED <<zone, query, focus, now, rendered, renderedInitObjs>>
  /\ UNCHANGED ioVars

\* the goals screen's handleAddGoal with no goal being edited
handleAddGoal(form, r) == addYearGoal(Spread(form, [isCompleted |-> FALSE]), r)

\* the goals screen's handleAddGoal while editingGoal is a goal of the
\* rendered list
handleAddGoalEditing(editingGoal, form) == updateYearGoal(Spread(editingGoal, form))

\* the progress toggleYearGoal gives the updated goal
ToggledProgress(goal) == IF ~goal.isCompleted THEN 100 ELSE goal.progress

\* a toggleYearGoal that rebuilds the list from the goals its render captured
toggleYearGoalFromCaptured(goalId) ==
  LET i == FindIndex(rendered.yearGoals, "id", goalId)
  IN  /\ Called("toggleYearGoal", goalId)
      /\ IF i # 0
         THEN LET goal == rendered.yearGoals[i]
                  updated == Spread(goal, [isCompleted |-> ~goal.isCompleted,
                                           progress |-> ToggledProgress(goal)])
              IN  Dispatch([type |-> "LOAD_DATA",
                            payload |-> [yearGoals |-> MapReplace(rendered.yearGoals, updated)],
                            fresh |-> {"settings"}])
         ELSE NoDispatch
      /\ UNCHANGED <<zone, query, focus, now, rendered, renderedInitObjs>>
      /\ UNCHANGED ioVars

toggleYearGoal(goalId) ==
  LET i == FindIndex(rendered.yearGoals, "id", goalId)
  IN  /\ Called("toggleYearGoal", goalId)
      /\ IF i # 0
         THEN LET goal == rendered.yearGoals[i]
              IN  Dispatch([type |-> "UPDATE_YEAR_GOAL",
                            payload |-> Spread(goal, [isCompleted |-> ~goal.isCompleted,
                                                      progress |-> ToggledProgress(goal)])])
         ELSE NoDispatch
      /\ UNCHANGED <<zone, query, focus, now, rendered, renderedInitObjs>>
      /\ UNCHANGED ioVars

deleteYearGoal(goalId) ==
  /\ Called("deleteYearGoal", goalId)
  /\ Dispatch([type |-> "DELETE_YEAR_GOAL", payload |-> goalId])
  /\ UNCHANGED <<zone, query, focus, now, rendered, renderedInitObjs>>
  /\ UNCHANGED ioVars

\* Array.prototype.sort with the goals screen's comparator: a stable sort
\* that puts the goals not completed before the completed ones
SortByCompleted(arr) ==
  SelectSeq(arr, LAMBDA g : ~g.isCompleted) \o SelectSeq(arr, LAMBDA g : g.isCompleted)

\* a render with the goals screen mounted: its useMemo sorts state.yearGoals
\* in place, in the array the reducer's state holds, before the save effect
\* runs
GoalsScreenRender ==
  /\ state # rendered \/ changed # {}
  /\ LET sorted == [state EXCEPT !.yearGoals = SortByCompleted(@)]
     IN  /\ state' = sorted
         /\ rendered' = sorted
         /\ IF SaveEffectRuns(state, changed)
            THEN /\ writes' = [k \in STORAGE_KEYS |-> writes[k] \cup {Snapshot(sorted)[k]}]
                 /\ saved' = saved \cup {sorted}
            ELSE UNCHANGED <<writes, saved>>
  /\ renderedInitObjs' = initObjs
  /\ changed' = {}
  /\ UNCHANGED <<zone, query, focus, now, initObjs, storage, load, clear, nRejected, calls, nCalls>>

ShownWeeklyGoalIds == IdsOf(rendered.weeklyGoals)

ShownYearGoalIds == IdsOf(rendered.yearGoals)

GoalTitles == {"Plan"}

\* The goals: the week screen and the goals screen are mounted; the store is
\* also called with an id no record has.
NextGoals ==
  \/ Mount
  \/ LoadResolves
  \/ GoalsScreenRender
  \/ \E title \in GoalTitles : ScreenShown /\ handleAddWeeklyGoal(title, 1, 0)
  \/ \E id \in ShownWeeklyGoalIds \cup {NoSuchId} : ScreenShown /\ toggleWeeklyGoal(id)
  \/ \E id \in ShownWeeklyGoalIds \cup {NoSuchId} : ScreenShown /\ deleteWeeklyGoal(id)
  \/ \E form \in GoalForms : ScreenShown /\ handleAddGoal(form, 0)
  \/ \E i \in 1..Len(rendered.yearGoals), form \in GoalForms :
       ScreenShown /\ handleAddGoalEditing(rendered.yearGoals[i], form)
  \/ \E id \in ShownYearGoalIds \cup {NoSuchId} : ScreenShown /\ toggleYearGoal(id)
  \/ \E id \in ShownYearGoalIds \cup {NoSuchId} : ScreenShown /\ deleteYearGoal(id)
  \/ \E id \in {NoSuchId} : ScreenShown /\ toggleTask(id)
  \/ \E id \in {NoSuchId} : ScreenShown /\ deleteTask(id)
  \/ \E goal \in {[OldYearGoals[1] EXCEPT !.id = NoSuchId]} :
       ScreenShown /\ updateYearGoal(goal)

SpecGoals == InitFrom({EmptyStorage, GoalsStorage}) /\ [][NextGoals]_vars

(***************************************************************************)
(* The focus screen: a countdown, the energy feedback dialog shown when it *)
(* reaches zero, and the session the dialog's buttons add.                 *)
(***************************************************************************)
\* a session written by an earlier run of the app, its dialog skipped
OldSession ==
  [id |-> <<-1, 5>>, startAt |-> toISOString(-2), endAt |-> toISOString(-1),
   durationMinutes |-> 25, date |-> -1, isCompleted |-> TRUE,
   energyScore |-> null, energyTag |-> null]

SessionsState == [OldState EXCEPT !.sessions = <<OldSession>>]

SessionsStorage ==
  [k \in STORAGE_KEYS |-> JSONstringify(FieldOf(k), SessionsState[FieldOf(k)])]

\* an addSession that replaces the stored sessions by the new one
addSessionReplacing(session, r) ==
  LET newSession == Spread(session, [id |-> generateId(r)])
  IN  /\ Called("addSession", newSession.id)
      /\ Dispatch([type |-> "LOAD_DATA", payload |-> [sessions |-> <<newSession>>],
                   fresh |-> {"settings"}])
      /\ UNCHANGED <<zone, query, now, rendered, renderedInitObjs>>
      /\ UNCHANGED ioVars

addSession(session, r) ==
  LET newSession == Spread(session, [id |-> generateId(r)])
  IN  /\ Called("addSession", newSession.id)
      /\ Dispatch([type |-> "ADD_SESSION", payload |-> newSession])
      /\ UNCHANGED <<zone, query, now, rendered, renderedInitObjs>>
      /\ UNCHANGED ioVars

\* the scores the dialog's buttons may set, of 1..5
Scores == {1, 5}

\* a step of the focus screen alone
StoreUntouched ==
  /\ UNCHANGED <<zone, query, now, state, rendered, initObjs, renderedInitObjs, changed, calls,
                 nCalls>>
  /\ UNCHANGED ioVars

\* the focus screen renders: its handlers now see the current cells, and the
\* two effects run whose dependencies changed.  The first resets the
\* countdown when duration or status changed and the status is idle; the
\* second, on a change of status, clears the interval and sets a new one
\* when the status is running.
FocusRender ==
  /\ Cells(focus) # focus.seen
  /\ focus' = [focus EXCEPT
        !.seen = Cells(focus),
        !.remainingSeconds =
          IF focus.status = "idle"
               /\ (focus.duration # focus.seen.duration \/ focus.status # focus.seen.status)
          THEN focus.duration * SecondsPerMinute ELSE @,
        !.timer = IF focus.status # focus.seen.status THEN focus.status = "running" ELSE @]
  /\ StoreUntouched

\* the start button, shown while the rendered status is idle
handleStart ==
  /\ focus.seen.status = "idle" /\ ~focus.seen.showFeedback
  /\ focus' = [focus EXCEPT !.sessionStartTime = toISOString(now), !.status = "running"]
  /\ StoreUntouched

\* a stop button that adds the abandoned countdown as a session
handleStopAddingSession ==
  /\ focus.seen.status = "running" /\ ~focus.seen.showFeedback
  /\ addSession([startAt |-> focus.seen.sessionStartTime,
                 endAt |-> toISOString(now),
                 durationMinutes |-> focus.seen.duration,
                 date |-> getToday,
                 isCompleted |-> FALSE,
                 energyScore |-> null,
                 energyTag |-> null], 0)
  /\ focus' = [focus EXCEPT !.status = "idle",
                            !.remainingSeconds = focus.seen.duration * SecondsPerMinute,
                            !.sessionStartTime = null]

\* the stop button, shown while the rendered status is running
handleStop ==
  /\ focus.seen.status = "running" /\ ~focus.seen.showFeedback
  /\ focus' = [focus EXCEPT !.status = "idle",
                            !.remainingSeconds = focus.seen.duration * SecondsPerMinute,
                            !.sessionStartTime = null]
  /\ StoreUntouched

\* the interval callback runs n times in a row with more than n seconds
\* remaining: each run takes one second off
TimerTick(n) ==
  /\ focus.timer
  /\ n >= 1 /\ focus.remainingSeconds > n
  /\ focus' = [focus EXCEPT !.remainingSeconds = @ - n]
  /\ StoreUntouched

\* the interval callback finds the countdown at its last second: it clears
\* the interval, calls handleTimerComplete and sets the countdown to 0
handleTimerComplete ==
  /\ focus.timer
  /\ focus.remainingSeconds <= 1
  /\ focus' = [focus EXCEPT !.status = "idle", !.showFeedback = TRUE,
                            !.remainingSeconds = 0, !.timer = FALSE]
  /\ StoreUntouched

\* a score button of the dialog is pressed
setEnergyScore(score) ==
  /\ focus.seen.showFeedback
  /\ focus' = [focus EXCEPT !.energyScore = Some(score)]
  /\ StoreUntouched

\* the dialog's save button (skip false), its skip button or its dismissal
\* (skip true)
handleSaveSession(skip, r) ==
  /\ focus.seen.showFeedback
  /\ IF focus.seen.sessionStartTime # null
     THEN addSession([startAt |-> focus.seen.sessionStartTime,
                      endAt |-> toISOString(now),
                      durationMinutes |-> focus.seen.duration,
                      date |-> getToday,
                      isCompleted |-> TRUE,
                      energyScore |-> IF skip THEN null ELSE focus.seen.energyScore,
                      energyTag |-> IF skip THEN null ELSE focus.seen.energyTag], r)
     ELSE StoreUntouched
  /\ focus' = [focus EXCEPT !.showFeedback = FALSE, !.energyScore = null,
                            !.energyTag = null, !.sessionStartTime = null,
                            !.remainingSeconds = focus.seen.duration * SecondsPerMinute]

\* the header's back button: a running countdown is stopped, and the screen
\* is left, which clears the interval; when it is opened again it is mounted
\* anew with the settings of the provider's last render
handleBack ==
  /\ ~focus.seen.showFeedback
  /\ focus' = FocusMounted(rendered.settings)
  /\ StoreUntouched

\* Math.max(0, Math.min(TIME_OPTIONS.length - 1, index))
clampedIndex(index) == Max(0, Min(Len(TIME_OPTIONS) - 1, index))

\* the slider reports a scroll position nearest to the item at index
handleScroll(index) ==
  /\ ~focus.seen.showFeedback
  /\ focus.seen.status = "idle"
  /\ focus' = IF clampedIndex(index) # focus.seen.selectedIndex
              THEN [focus EXCEPT !.selectedIndex = clampedIndex(index),
                                 !.duration = TIME_OPTIONS[clampedIndex(index) + 1]]
              ELSE focus
  /\ StoreUntouched

\* the slider's momentum ends nearest to the item at index
handleScrollEnd(index) ==
  /\ ~focus.seen.showFeedback
  /\ focus.seen.status = "idle"
  /\ focus' = [focus EXCEPT !.selectedIndex = clampedIndex(index),
                            !.duration = TIME_OPTIONS[clampedIndex(index) + 1]]
  /\ StoreUntouched

\* an item of the slider, which is shown while the rendered status is idle,
\* is pressed
handleTimeOptionPress(index) ==
  /\ ~focus.seen.showFeedback
  /\ focus.seen.status = "idle"
  /\ focus' = [focus EXCEPT !.selectedIndex = index, !.duration = TIME_OPTIONS[index + 1]]
  /\ StoreUntouched

\* The focus screen, which is not held back while the state is loading,
\* next to the today screen and the settings screen's clear.  The interval
\* callbacks of a countdown run in a row down to its last second, and the
\* clock stands still.
NextFocus ==
  \/ Mount
  \/ LoadResolves
  \/ NoRemoval /\ Render
  \/ NoRemoval /\ FocusRender
  \/ NoRemoval /\ handleStart
  \/ NoRemoval /\ handleStop
  \/ \E n \in {focus.remainingSeconds - 1} : NoRemoval /\ TimerTick(n)
  \/ NoRemoval /\ handleTimerComplete
  \/ \E score \in Scores : NoRemoval /\ setEnergyScore(score)
  \/ \E skip \in BOOLEAN : NoRemoval /\ handleSaveSession(skip, 0)
  \/ NoRemoval /\ handleBack
  \/ \E title \in Titles : ScreenShown /\ NoRemoval /\ handleAddTask(title, TRUE, 0)
  \/ \E c \in 1..MaxClears : ScreenShown /\ NoRemoval /\ clearAllData(c)
  \/ \E c \in 1..MaxClears, k \in STORAGE_KEYS :
       FirstRemoval(c, k) /\ RemoveItemResolves(c, k)

SpecFocus == InitFrom({EmptyStorage, SessionsStorage}) /\ [][NextFocus]_vars

(***************************************************************************)
(* The settings screen's duration steppers.                                *)
(***************************************************************************)
\* settings an earlier run of the app left: the maximum was stepped down
\* from 60 to 30, the default is still 25
SettingsState ==
  [OldState EXCEPT !.settings = Spread(DEFAULT_SETTINGS, [maxPomodoroMinutes |-> 30])]

SettingsStorage ==
  [k \in STORAGE_KEYS |-> JSONstringify(FieldOf(k), SettingsState[FieldOf(k)])]

\* the steps the screen's minus and plus buttons pass
Deltas == {-5, 5}

handleDefaultTimeChange(delta) ==
  LET newValue == Max(5, Min(60, rendered.settings.defaultPomodoroMinutes + delta))
  IN  updateSettings([defaultPomodoroMinutes |-> newValue])

handleMaxTimeChange(delta) ==
  LET newValue == Max(rendered.settings.defaultPomodoroMinutes,
                      Min(120, rendered.settings.maxPomodoroMinutes + delta))
  IN  updateSettings([maxPomodoroMinutes |-> newValue])

\* The settings: the settings screen and the goals screen's mission.
NextSettings ==
  \/ Mount
  \/ LoadResolves
  \/ Render
  \/ \E delta \in Deltas : ScreenShown /\ handleDefaultTimeChange(delta)
  \/ \E delta \in Deltas : ScreenShown /\ handleMaxTimeChange(delta)
  \/ \E value \in BOOLEAN : ScreenShown /\ handleDarkModeToggle(value)
  \/ \E text \in Missions : ScreenShown /\ handleSaveMission(text)

SpecSettings == InitFrom({EmptyStorage, SettingsStorage}) /\ [][NextSettings]_vars

(***************************************************************************)
(* The week screen: the week it displays, the sessions of that week, and   *)
(* the goals and reflections it files under that week.                     *)
(***************************************************************************)
getWeekStartDate(z, date) ==
  LET day  == getDay(z, date)
      diff == getDate(z, date) - day + (IF day = 0 THEN -6 ELSE 1)
  IN  toISODate(setDate(z, date, diff))

getWeekSessions(z, sessions, weekStartDate) ==
  LET start == DateParse(weekStartDate)
      end   == setDate(z, start, getDate(z, start) + 7)
      Keep(s) == DateParse(s.date) >= start /\ DateParse(s.date) < end /\ s.isCompleted
  IN  SelectSeq(sessions, Keep)

\* the week screen's displayedWeekStart, currentWeekOffset weeks from this one
displayedWeekStart(z, t, currentWeekOffset) ==
  LET start == DateParse(getWeekStartDate(z, t))
  IN  toISODate(setDate(z, start, getDate(z, start) + currentWeekOffset * 7))

\* a Monday, and the instant in the night of the following Sunday at which
\* the zones with daylight saving time change their offset
Monday == 7
TransitionAt == (Monday + 6) * TicksPerDay + 1

\* the zones of the device: UTC, east and west of it, and one that sets the
\* clocks back and one that sets them forward in the night of that Sunday
Zones ==
  {UTC, Fixed(8), Fixed(-5),
   [before |-> 2, after |-> 1, at |-> TransitionAt],
   [before |-> 1, after |-> 2, at |-> TransitionAt]}

\* the instants at which the week screen is opened: early and late hours of
\* that Monday, of the Wednesday and the Sunday after it, and of the next
\* Monday
Instants ==
  {d * TicksPerDay + h : d \in {Monday, Monday + 2, Monday + 6, Monday + 7},
                         h \in {0, 3, 21}}

SessionOn(n, date) ==
  [id |-> <<-1, 10 + n>>, startAt |-> toISOString(DateParse(date)),
   endAt |-> toISOString(DateParse(date) + 1), durationMinutes |-> 25, date |-> date,
   isCompleted |-> TRUE, energyScore |-> null, energyTag |-> null]

\* completed sessions on the Sunday before that Monday, on the Monday, on
\* the Sunday after it and on the next Monday
WeekState ==
  [OldState EXCEPT !.tasks = <<>>, !.weeklyReflections = <<>>,
                   !.sessions = <<SessionOn(1, Monday - 1), SessionOn(2, Monday),
                                  SessionOn(3, Monday + 6), SessionOn(4, Monday + 7)>>]

WeekStorage == [k \in STORAGE_KEYS |-> JSONstringify(FieldOf(k), WeekState[FieldOf(k)])]

\* the state after construction on a device in one of the zones, at one of
\* the instants
InitWeek ==
  /\ now \in Instants
  /\ zone \in Zones
  /\ state = initialState
  /\ rendered = initialState
  /\ initObjs = Deps
  /\ renderedInitObjs = Deps
  /\ changed = {}
  /\ storage = WeekStorage
  /\ writes = [k \in STORAGE_KEYS |-> {}]
  /\ load = [pc |-> "idle", seen |-> [k \in STORAGE_KEYS |-> {}]]
  /\ clear = [c \in 1..MaxClears |-> [pc |-> "idle", rem |-> {}]]
  /\ saved = {}
  /\ nRejected = 0
  /\ calls = <<>>
  /\ nCalls = 0
  /\ focus = FocusInit
  /\ query = NoQuery

\* the offsets the week screen's arrows reach
WeekOffsets == {0, 1}

\* the call repeats the last query: the same callback, argument and collection
Repeats(op, arg, of) ==
  query.n > 0 /\ query.op = op /\ query.arg = arg /\ query.of = of

\* a query is called with an argument on the collection its callback closed
\* over, and returns; the call is counted and its result remembered
Asked(op, arg, of, result) ==
  /\ query.n < MaxQueries
  /\ query' = [op |-> op, n |-> query.n + 1, again |-> Repeats(op, arg, of),
               arg |-> arg, of |-> of, result |-> result]
  /\ UNCHANGED <<now, state, rendered, initObjs, renderedInitObjs, changed, calls,
                 nCalls, focus, zone>>
  /\ UNCHANGED ioVars

\* the week screen renders: currentWeekStart
currentWeekStart ==
  Asked("getWeekStartDate", now, <<>>, <<getWeekStartDate(zone, now)>>)

\* the week screen renders: weekSessions of the displayed week, from the
\* sessions the callback closed over
weekSessions(currentWeekOffset) ==
  LET weekStartDate == displayedWeekStart(zone, now, currentWeekOffset)
  IN  Asked("getWeekSessions", weekStartDate, rendered.sessions,
            getWeekSessions(zone, rendered.sessions, weekStartDate))

\* the week screen's handleSaveReflection, for the displayed week
handleSaveReflection(form, currentWeekOffset, r) ==
  saveWeeklyReflection(
    Spread(form, [weekStartDate |-> displayedWeekStart(zone, now, currentWeekOffset)]), r)

NextWeek ==
  \/ Mount
  \/ LoadResolves
  \/ Render
  \/ currentWeekStart
  \/ \E off \in WeekOffsets : weekSessions(off)
  \/ \E off \in WeekOffsets :
       ScreenShown /\ handleAddWeeklyGoal("Plan", displayedWeekStart(zone, now, off), 0)
  \/ \E off \in WeekOffsets, form \in {f \in ReflectionForms : f.focusMinutesAuto = 25} :
       ScreenShown /\ handleSaveReflection(form, off, 0)

SpecWeek == InitWeek /\ [][NextWeek]_vars

(***************************************************************************)
(* The store's queries, as the today screen and the week screen call them. *)
(***************************************************************************)
getTodayTasks(tasks) ==
  LET today == getToday
      Keep(t) == t.date = today
  IN  SelectSeq(tasks, Keep)

getTodaySessions(sessions) ==
  LET today == getToday
      Keep(s) == s.date = today /\ s.isCompleted
  IN  SelectSeq(sessions, Keep)

\* a getTasksByDate that returns the tasks of that date and of later dates
getTasksByDateFrom(tasks, date) ==
  LET Keep(t) == t.date >= date
  IN  SelectSeq(tasks, Keep)

getTasksByDate(tasks, date) ==
  LET Keep(t) == t.date = date
  IN  SelectSeq(tasks, Keep)

getSessionsByDate(sessions, date) ==
  LET Keep(s) == s.date = date /\ s.isCompleted
  IN  SelectSeq(sessions, Keep)

getCurrentWeekGoals(z, weeklyGoals) ==
  LET weekStart == getWeekStartDate(z, now)
      Keep(g) == g.weekStartDate = weekStart
  IN  SelectSeq(weeklyGoals, Keep)

\* find: the first reflection of the week, or none (undefined)
getCurrentWeekReflection(z, weeklyReflections) ==
  LET i == FindIndex(weeklyReflections, "weekStartDate", getWeekStartDate(z, now))
  IN  IF i = 0 THEN <<>> ELSE <<weeklyReflections[i]>>

TaskOn(n, date) ==
  [id |-> <<-1, 20 + n>>, title |-> "Write spec", isCompleted |-> FALSE, isTop3 |-> FALSE,
   createdAt |-> toISOString(DateParse(date)), completedAt |-> null, date |-> date]

\* tasks of that Monday and of the Wednesday after it, the sessions of
\* WeekState, a goal and a reflection of that Monday's week
QueriesState ==
  [WeekState EXCEPT
     !.tasks = <<TaskOn(1, Monday), TaskOn(2, Monday + 2), TaskOn(3, Monday)>>,
     !.weeklyGoals = <<[OldWeeklyGoal EXCEPT !.weekStartDate = Monday]>>,
     !.weeklyReflections = <<[OldReflection EXCEPT !.weekStartDate = Monday]>>]

QueriesStorage ==
  [k \in STORAGE_KEYS |-> JSONstringify(FieldOf(k), QueriesState[FieldOf(k)])]

InitQueries ==
  /\ now \in Instants
  /\ zone \in Zones
  /\ state = initialState
  /\ rendered = initialState
  /\ initObjs = Deps
  /\ renderedInitObjs = Deps
  /\ changed = {}
  /\ storage = QueriesStorage
  /\ writes = [k \in STORAGE_KEYS |-> {}]
  /\ load = [pc |-> "idle", seen |-> [k \in STORAGE_KEYS |-> {}]]
  /\ clear = [c \in 1..MaxClears |-> [pc |-> "idle", rem |-> {}]]
  /\ saved = {}
  /\ nRejected = 0
  /\ calls = <<>>
  /\ nCalls = 0
  /\ focus = FocusInit
  /\ query = NoQuery

\* the dates of the days the week screen asks the statistics of
QueryDates == {Monday, Monday + 2}

\* the today screen renders: todayTasks, todaySessions
todayTasks == Asked("getTodayTasks", now, rendered.tasks, getTodayTasks(rendered.tasks))

\* a todaySessions whose query sorts the sessions of the state in place, the
\* latest first, before it filters them
todaySessionsSorting ==
  LET Later(a, b) == a.date >= b.date
      sorted == SortSeq(state.sessions, Later)
  IN  /\ query.n < MaxQueries
      /\ query' = [op |-> "getTodaySessions", n |-> query.n + 1,
                   again |-> Repeats("getTodaySessions", now, rendered.sessions),
                   arg |-> now, of |-> rendered.sessions,
                   result |-> getTodaySessions(sorted)]
      /\ state' = [state EXCEPT !.sessions = sorted]
      /\ UNCHANGED <<now, rendered, initObjs, renderedInitObjs, changed, calls, nCalls,
                     focus, zone>>
      /\ UNCHANGED ioVars

todaySessions ==
  Asked("getTodaySessions", now, rendered.sessions, getTodaySessions(rendered.sessions))

\* the week screen's getDayStats
getDayStatsTasks(date) ==
  Asked("getTasksByDate", date, rendered.tasks, getTasksByDate(rendered.tasks, date))

getDayStatsSessions(date) ==
  Asked("getSessionsByDate", date, rendered.sessions,
        getSessionsByDate(rendered.sessions, date))

currentWeekGoals ==
  Asked("getCurrentWeekGoals", now, rendered.weeklyGoals,
        getCurrentWeekGoals(zone, rendered.weeklyGoals))

currentWeekReflection ==
  Asked("getCurrentWeekReflection", now, rendered.weeklyReflections,
        getCurrentWeekReflection(zone, rendered.weeklyReflections))

NextQueries ==
  \/ Mount
  \/ LoadResolves
  \/ Render
  \/ \E title \in Titles : ScreenShown /\ handleAddTask(title, FALSE, 0)
  \/ todayTasks
  \/ todaySessions
  \/ \E date \in QueryDates : getDayStatsTasks(date)
  \/ \E date \in QueryDates : getDayStatsSessions(date)
  \/ \E off \in {0} : weekSessions(off)
  \/ currentWeekGoals
  \/ currentWeekReflection

SpecQueries == InitQueries /\ [][NextQueries]_vars

(***************************************************************************)
(* The four add calls side by side: the today screen, the focus screen,    *)
(* the week screen and the goals screen over a store that holds records of *)
(* each kind.                                                              *)
(***************************************************************************)
AddsState ==
  [OldState EXCEPT !.sessions = <<OldSession>>, !.weeklyGoals = <<OldWeeklyGoal>>,
                   !.yearGoals = OldYearGoals]

AddsStorage == [k \in STORAGE_KEYS |-> JSONstringify(FieldOf(k), AddsState[FieldOf(k)])]

NextAdds ==
  \/ Mount
  \/ LoadResolves
  \/ Render
  \/ \E title \in Titles, isTop3 \in BOOLEAN : ScreenShown /\ handleAddTask(title, isTop3, 0)
  \/ FocusRender
  \/ handleStart
  \/ \E n \in {focus.remainingSeconds - 1} : TimerTick(n)
  \/ handleTimerComplete
  \/ \E score \in Scores : setEnergyScore(score)
  \/ \E skip \in BOOLEAN : handleSaveSession(skip, 0)
  \/ \E title \in GoalTitles : ScreenShown /\ handleAddWeeklyGoal(title, 1, 0)
  \/ \E form \in GoalForms : ScreenShown /\ handleAddGoal(form, 0)

SpecAdds == InitFrom({EmptyStorage, AddsStorage}) /\ [][NextAdds]_vars

(***************************************************************************)
(* Every store call side by side, over a store that holds records of each  *)
(* kind: the today, focus, week, goals and settings screens.  The goals    *)
(* screen may be mounted at a render or not.                               *)
(***************************************************************************)
NextMutations ==
  \/ Mount
  \/ LoadResolves
  \/ NoRemoval /\ Render
  \/ NoRemoval /\ GoalsScreenRender
  \/ \E title \in Titles : ScreenShown /\ NoRemoval /\ handleAddTask(title, TRUE, 0)
  \/ \E id \in ShownTaskIds : ScreenShown /\ NoRemoval /\ toggleTask(id)
  \/ \E id \in ShownTaskIds : ScreenShown /\ NoRemoval /\ deleteTask(id)
  \/ NoRemoval /\ FocusRender
  \/ NoRemoval /\ handleStart
  \/ \E n \in {focus.remainingSeconds - 1} : NoRemoval /\ TimerTick(n)
  \/ NoRemoval /\ handleTimerComplete
  \/ \E skip \in {TRUE} : NoRemoval /\ handleSaveSession(skip, 0)
  \/ \E title \in GoalTitles : ScreenShown /\ NoRemoval /\ handleAddWeeklyGoal(title, 1, 0)
  \/ \E id \in ShownWeeklyGoalIds : ScreenShown /\ NoRemoval /\ toggleWeeklyGoal(id)
  \/ \E id \in ShownWeeklyGoalIds : ScreenShown /\ NoRemoval /\ deleteWeeklyGoal(id)
  \/ \E w \in {1}, form \in ReflectionForms :
       ScreenShown /\ NoRemoval /\ saveWeeklyReflection(Spread([weekStartDate |-> w], form), 0)
  \/ \E form \in GoalForms : ScreenShown /\ NoRemoval /\ handleAddGoal(form, 0)
  \/ \E i \in 1..Len(rendered.yearGoals), form \in GoalForms :
       ScreenShown /\ NoRemoval /\ handleAddGoalEditing(rendered.yearGoals[i], form)
  \/ \E id \in ShownYearGoalIds : ScreenShown /\ NoRemoval /\ toggleYearGoal(id)
  \/ \E id \in ShownYearGoalIds : ScreenShown /\ NoRemoval /\ deleteYearGoal(id)
  \/ \E text \in Missions : ScreenShown /\ NoRemoval /\ handleSaveMission(text)
  \/ \E c \in 1..MaxClears : ScreenShown /\ NoRemoval /\ clearAllData(c)
  \/ \E c \in 1..MaxClears, k \in STORAGE_KEYS :
       FirstRemoval(c, k) /\ RemoveItemResolves(c, k)

SpecMutations == InitFrom({EmptyStorage, AddsStorage}) /\ [][NextMutations]_vars

(***************************************************************************)
(* The focus screen's countdown second by second, with its slider, next to *)
(* the settings screen's stepper of the maximum duration.                  *)
(***************************************************************************)
\* the positions the slider's scroll events may report, as item indexes
\* before clamping
ScrollIndexes == {-1, 6}

NextTimer ==
  \/ Mount
  \/ LoadResolves
  \/ Render
  \/ FocusRender
  \/ handleStart
  \/ handleStop
  \/ \E n \in {1} : TimerTick(n)
  \/ handleTimerComplete
  \/ \E skip \in BOOLEAN : handleSaveSession(skip, 0)
  \/ handleBack
  \/ \E index \in ScrollIndexes : handleScroll(index)
  \/ \E index \in ScrollIndexes : handleScrollEnd(index)
  \/ \E index \in {0} : handleTimeOptionPress(index)
  \/ \E delta \in Deltas : ScreenShown /\ handleMaxTimeChange(delta)

SpecTimer == InitFrom({EmptyStorage, SettingsStorage}) /\ [][NextTimer]_vars

(***************************************************************************)
(* Properties.                                                             *)
(***************************************************************************)
LastCall == calls[Len(calls)]

\* React has nothing left to render and no storage call is in flight
Settled == state = rendered /\ changed = {} /\ NoWrite /\ NoRemoval

\* C1: saveWeeklyReflection calls never leave two reflections with the same
\* weekStartDate, and after a call the week's record holds the fields saved
UpsertUniqueness ==
  /\ \A i, j \in 1..Len(state.weeklyReflections) :
       i # j => state.weeklyReflections[i].weekStartDate
                  # state.weeklyReflections[j].weekStartDate
  /\ (calls # <<>> /\ LastCall.op = "saveWeeklyReflection") =>
       \A i \in 1..Len(state.weeklyReflections) :
         state.weeklyReflections[i].weekStartDate = LastCall.arg.weekStartDate =>
           \A f \in DOMAIN LastCall.arg :
             state.weeklyReflections[i][f] = LastCall.arg[f]

\* C2: once every setItem call has resolved, the six stored texts are the
\* six texts of one state saveData was called with
SaveAtomicity ==
  (NoWrite /\ saved # {} /\ nRejected = 0) =>
    \E s \in saved : storage = Snapshot(s)

\* C3: after two clearAllData calls in a row, when they have returned and all
\* storage I/O has completed, none of the six keys exists
IdempotentClearStorage ==
  (/\ Len(calls) = 2
   /\ calls[1].op = "clearAllData" /\ calls[2].op = "clearAllData"
   /\ clear[calls[1].arg].pc = "done" /\ clear[calls[2].arg].pc = "done"
   /\ Settled) =>
    \A k \in STORAGE_KEYS : storage[k] = Absent

\* what a key's stored text decodes to, the default when it is absent or
\* undecodable
Decoded(k) ==
  IF storage[k].kind = "json"
  THEN IF k = "SETTINGS" THEN Spread(DEFAULT_SETTINGS, storage[k].text)
       ELSE storage[k].text
  ELSE initialState[FieldOf(k)]

\* C4: after a load whose reads all succeeded, every collection holds what
\* its own key decodes to, whatever the other keys hold
DecodeFailureIsolation ==
  (load.pc = "done" /\ nCalls = 0) =>
    \A k \in STORAGE_KEYS : state[FieldOf(k)] = Decoded(k)

\* two JavaScript objects with the same properties, an undefined property
\* counting as a missing one
SameObject(a, b) ==
  \A f \in (DOMAIN a) \cup (DOMAIN b) :
    IF f \in OptionalFields THEN Get(a, f) = Get(b, f)
    ELSE f \in DOMAIN a /\ f \in DOMAIN b /\ a[f] = b[f]

SameArray(a, b) ==
  Len(a) = Len(b) /\ \A i \in 1..Len(a) : SameObject(a[i], b[i])

\* the state a load yields from the stored texts
Loaded == appReducer(initialState, LoadAction(storage))

ToggleSymmetry ==
  (/\ Len(calls) = 2
   /\ calls[1].op = "toggleTask" /\ calls[2].op = "toggleTask"
   /\ calls[1].arg = calls[2].arg) =>
    \A i \in 1..Len(calls[1].pre.tasks), j \in 1..Len(state.tasks) :
      (calls[1].pre.tasks[i].id = calls[1].arg /\ state.tasks[j].id = calls[1].arg) =>
        /\ state.tasks[j].isCompleted = calls[1].pre.tasks[i].isCompleted
        /\ ~calls[1].pre.tasks[i].isCompleted => state.tasks[j].completedAt = null

\* C7: every task has completedAt non-null exactly when it is completed
CompletedAtIffCompleted ==
  \A i \in 1..Len(state.tasks) :
    (state.tasks[i].completedAt # null) <=> state.tasks[i].isCompleted

\* a task was toggled to completed and stamped, then toggled back and cleared
CompletedAtWitness ==
  /\ Len(calls) = 2
  /\ calls[1].op = "toggleTask" /\ calls[2].op = "toggleTask"
  /\ \E j \in 1..Len(calls[2].pre.tasks) :
       calls[2].pre.tasks[j].isCompleted /\ calls[2].pre.tasks[j].completedAt # null
  /\ \E i \in 1..Len(state.tasks) :
       ~state.tasks[i].isCompleted /\ state.tasks[i].completedAt = null

\* C8: no two records of a collection share an id
IdentifierUniqueness ==
  \A f \in Collections : \A i, j \in 1..Len(state[f]) :
    i # j => state[f][i].id # state[f][j].id

\* the collections are empty and the settings are the defaults
Cleared(s) ==
  /\ \A f \in Collections : s[f] = <<>>
  /\ s.settings = DEFAULT_SETTINGS

\* C9: when clearAllData has returned, also after a failed removal, the
\* collections are empty and the settings are the defaults
ClearTakesEffect ==
  (calls # <<>> /\ LastCall.op = "clearAllData"
     /\ clear[LastCall.arg].pc \in {"done", "failed"}) =>
    Cleared(state)

\* C10: the state is loading until the load finishes, the load starts once,
\* its end clears the flag for good, and the flag is eventually cleared
LoadingGate ==
  /\ [](load.pc \in {"idle", "reading"} => state.isLoading)
  /\ [][load'.pc = "reading" => load.pc \in {"idle", "reading"}]_vars
  /\ [][(load.pc = "reading" /\ load'.pc # "reading") => ~state'.isLoading]_vars
  /\ [][~state.isLoading => ~state'.isLoading]_vars
  /\ <>(~state.isLoading)

\* a load ended in its catch block, and the store is in use
LoadingGateWitness ==
  /\ load.pc = "done"
  /\ ParseThrows(storage)
  /\ ~state.isLoading
  /\ nCalls > 0

\* C11: a mutation changes the state in memory in the step of the call, no
\* setItem call being issued or awaited by it; the render that follows a
\* change of a collection or of the settings, the state not loading, issues
\* one setItem call per key with the texts of the complete current state
SaveFollowsMutation ==
  /\ [][((\E f \in Deps : state'[f] # state[f]) /\ ~state.isLoading) =>
          (writes' = writes /\ saved' = saved)]_vars
  /\ [][((\E f \in Deps : rendered'[f] # rendered[f]) /\ ~state.isLoading) =>
          /\ rendered' = state'
          /\ state' \in saved'
          /\ \A k \in STORAGE_KEYS : Snapshot(state')[k] \in writes'[k]]_vars

\* a task was added, the state in memory holds it, and the save of that
\* state is in flight: storage does not hold the task yet
SaveFollowsMutationWitness ==
  /\ calls # <<>> /\ LastCall.op = "addTask"
  /\ state = rendered /\ state \in saved
  /\ \E i \in 1..Len(state.tasks) : state.tasks[i].id = LastCall.arg
  /\ Snapshot(state)["TASKS"] \in writes["TASKS"]
  /\ storage["TASKS"] # Snapshot(state)["TASKS"]

\* C12: a rejected setItem call changes neither the state in memory nor the
\* rendered one, is not issued again and starts no other call; after it, the
\* render that follows the next change still issues one setItem call per key
\* with the texts of the then-current state
WriteFailureDropped ==
  /\ [][nRejected' > nRejected =>
          /\ state' = state /\ rendered' = rendered /\ saved' = saved
          /\ \A k \in STORAGE_KEYS : writes'[k] \subseteq writes[k]
          /\ writes' # writes]_vars
  /\ [][(nRejected > 0 /\ (\E f \in Deps : rendered'[f] # rendered[f])
            /\ ~state.isLoading) =>
          \A k \in STORAGE_KEYS : Snapshot(state')[k] \in writes'[k]]_vars

\* the only save issued so far lost its tasks text to a rejected setItem
\* call: storage lacks it and no call is in flight; the state in memory is
\* intact and the next mutation has been made from it
WriteFailureWitness ==
  /\ nRejected > 0 /\ NoWrite
  /\ saved = {rendered}
  /\ rendered.tasks # <<>>
  /\ storage["TASKS"] # Snapshot(rendered)["TASKS"]
  /\ calls # <<>> /\ LastCall.op = "updateSettings"
  /\ LastCall.pre = rendered /\ state # rendered

\* the store calls that address a record by its id, and their collections
TargetOf(op) ==
  CASE op \in {"toggleTask", "deleteTask"} -> "tasks"
    [] op \in {"toggleWeeklyGoal", "deleteWeeklyGoal"} -> "weeklyGoals"
    [] op \in {"updateYearGoal", "toggleYearGoal", "deleteYearGoal"} -> "yearGoals"

ByIdOps ==
  {"toggleTask", "deleteTask", "toggleWeeklyGoal", "deleteWeeklyGoal",
   "updateYearGoal", "toggleYearGoal", "deleteYearGoal"}

\* the id a logged call addresses
ArgId(call) == IF call.op = "updateYearGoal" THEN call.arg.id ELSE call.arg

\* the logged call addresses an id no record of its collection had
UnknownId(call) ==
  call.op \in ByIdOps /\ ArgId(call) \notin IdsOf(call.pre[TargetOf(call.op)])

\* C13: a call of toggleTask, deleteTask, toggleWeeklyGoal, deleteWeeklyGoal,
\* updateYearGoal, toggleYearGoal or deleteYearGoal with an id no record of
\* its collection has leaves every collection, in content and order, the
\* settings and the loading flag as they were
UnknownIdNoOp ==
  [][(nCalls' = nCalls + 1 /\ UnknownId(calls'[Len(calls')])) => state' = state]_vars

\* a year goal was deleted with an id no goal has, after a task was toggled
\* with an id no task has, both collections holding records
UnknownIdWitness ==
  /\ Len(calls) = 2
  /\ calls[1].op = "toggleTask" /\ UnknownId(calls[1]) /\ calls[1].pre.tasks # <<>>
  /\ calls[2].op = "deleteYearGoal" /\ UnknownId(calls[2])
  /\ calls[2].pre.yearGoals # <<>>
  /\ state.yearGoals = calls[2].pre.yearGoals

\* a is a prefix of b
IsPrefix(a, b) == Len(a) <= Len(b) /\ \A i \in 1..Len(a) : b[i] = a[i]

\* C14: every step but the one that ends the initial load and the one that
\* ends a clearAllData leaves the sessions it found as a prefix of the
\* sessions it leaves
SessionsAppendOnly ==
  [][(/\ ~(load.pc = "reading" /\ load'.pc # "reading")
      /\ \A c \in 1..MaxClears : ~(clear[c].pc # "done" /\ clear'[c].pc = "done")) =>
       IsPrefix(state.sessions, state'.sessions)]_vars

\* a session was added behind the one the load brought
SessionsAppendOnlyWitness ==
  /\ load.pc = "done"
  /\ calls # <<>> /\ LastCall.op = "addSession"
  /\ LastCall.pre.sessions # <<>>
  /\ Len(state.sessions) = Len(LastCall.pre.sessions) + 1

\* C15: every session has energyScore and energyTag both null or both set
EnergyPairing ==
  \A i \in 1..Len(state.sessions) :
    (state.sessions[i].energyScore = null) <=> (state.sessions[i].energyTag = null)

\* C16: the maximum duration of the settings is never below the default one
MaxAtLeastDefault ==
  state.settings.maxPomodoroMinutes >= state.settings.defaultPomodoroMinutes

\* C17: a toggleYearGoal call for a goal the state holds with isCompleted
\* false leaves that goal with isCompleted true and progress 100, its other
\* fields as they were
ToggleYearGoalCompletes ==
  [][(nCalls' = nCalls + 1 /\ calls'[Len(calls')].op = "toggleYearGoal") =>
       \A i \in 1..Len(state.yearGoals) :
         (state.yearGoals[i].id = calls'[Len(calls')].arg
            /\ ~state.yearGoals[i].isCompleted) =>
           /\ Len(state'.yearGoals) = Len(state.yearGoals)
           /\ state'.yearGoals[i] =
                [state.yearGoals[i] EXCEPT !.isCompleted = TRUE, !.progress = 100]]_vars

\* C18: an updateSettings call gives the settings fields its argument names
\* the values given, and leaves the other settings fields, the five
\* collections and the loading flag as they were
UpdateSettingsFrame ==
  [][(nCalls' = nCalls + 1 /\ calls'[Len(calls')].op = "updateSettings") =>
       LET partial == calls'[Len(calls')].arg
       IN  /\ DOMAIN state'.settings = (DOMAIN state.settings) \cup (DOMAIN partial)
           /\ \A f \in DOMAIN partial : state'.settings[f] = partial[f]
           /\ \A f \in (DOMAIN state.settings) \ (DOMAIN partial) :
                state'.settings[f] = state.settings[f]
           /\ \A f \in Collections : state'[f] = state[f]
           /\ state'.isLoading = state.isLoading]_vars

\* the mission was saved and then the maximum duration the load brought was
\* stepped: the settings hold both
UpdateSettingsWitness ==
  /\ Len(calls) = 2
  /\ calls[1].op = "updateSettings" /\ DOMAIN calls[1].arg = {"mission"}
  /\ calls[2].op = "updateSettings" /\ DOMAIN calls[2].arg = {"maxPomodoroMinutes"}
  /\ state.settings.mission = calls[1].arg.mission
  /\ state.settings.maxPomodoroMinutes = calls[2].arg.maxPomodoroMinutes
  /\ state.settings.maxPomodoroMinutes # calls[2].pre.settings.maxPomodoroMinutes
  /\ calls[1].pre.settings.maxPomodoroMinutes = 30

\* the completed sessions dated within the seven days from weekStartDate
SessionsOfWeek(sessions, weekStartDate) ==
  LET InWeek(s) ==
        s.isCompleted /\ weekStartDate <= s.date /\ s.date < weekStartDate + 7
  IN  SelectSeq(sessions, InWeek)

\* C19: getWeekSessions(weekStartDate) returns exactly the completed sessions
\* whose date d satisfies weekStartDate <= d < weekStartDate + 7 days: one
\* dated weekStartDate + 6 is included, one dated weekStartDate + 7 or
\* weekStartDate - 1 is excluded.
WeekSessionsHalfOpen ==
  query.op = "getWeekSessions" =>
    query.result = SessionsOfWeek(query.of, query.arg)

\* the Monday on or before a day; day 0 is a Monday
MondayOnOrBefore(day) == day - (day % 7)

\* C20: getWeekStartDate returns, at every instant and in every zone, the
\* key of the Monday on or before the local calendar date of the instant,
\* and so every weekly goal and reflection the week screen creates is filed
\* under a Monday.
WeekStartIsLocalMonday ==
  /\ query.op = "getWeekStartDate" =>
       query.result = <<MondayOnOrBefore(LocalTime(zone, query.arg) \div TicksPerDay)>>
  /\ \A i \in 1..Len(state.weeklyGoals) :
       state.weeklyGoals[i].weekStartDate % 7 = 0
  /\ \A i \in 1..Len(state.weeklyReflections) :
       state.weeklyReflections[i].weekStartDate % 7 = 0

\* the local calendar day of the instant t
LocalDate(z, t) == LocalTime(z, t) \div TicksPerDay

\* the tasks dated date
TasksOn(tasks, date) ==
  LET On(t) == t.date = date
  IN  SelectSeq(tasks, On)

\* the completed sessions dated date
SessionsOn(sessions, date) ==
  LET On(s) == s.date = date /\ s.isCompleted
  IN  SelectSeq(sessions, On)

\* C21: getToday returns the local calendar date of the current instant in
\* every zone: a task the today screen adds at an instant is dated with the
\* local date of that instant, and getTodayTasks and getTodaySessions return
\* the records of the local date.
TodayIsLocalDate ==
  /\ \A i \in 1..Len(state.tasks) :
       state.tasks[i].id[1] >= 0 =>
         state.tasks[i].date = LocalDate(zone, state.tasks[i].createdAt[1])
  /\ query.op = "getTodayTasks" =>
       query.result = TasksOn(query.of, LocalDate(zone, query.arg))
  /\ query.op = "getTodaySessions" =>
       query.result = SessionsOn(query.of, LocalDate(zone, query.arg))

\* C22: getTasksByDate(d) returns exactly the tasks dated d, and
\* getSessionsByDate(d) and getTodaySessions() exactly the completed
\* sessions dated d, respectively dated getToday(), in the order of the
\* collection.
ExactDateFilters ==
  /\ query.op = "getTasksByDate" => query.result = TasksOn(query.of, query.arg)
  /\ query.op = "getSessionsByDate" => query.result = SessionsOn(query.of, query.arg)
  /\ query.op = "getTodaySessions" =>
       query.result = SessionsOn(query.of, toISODate(query.arg))

\* getTasksByDate(Monday) was called on the loaded tasks and a task added
\* since: it returned the two stored tasks of that Monday, in their order,
\* and left out the Wednesday's task between them
ExactDateFiltersWitness ==
  /\ query.op = "getTasksByDate"
  /\ query.arg = Monday
  /\ Len(query.of) = 4
  /\ query.of[2].date = Monday + 2
  /\ query.of[4].date # Monday
  /\ query.result = <<query.of[1], query.of[3]>>

\* C23: only the reducer changes the collections: a step that is neither a
\* store call nor the end of a load or of a clear, such as a render of the
\* goals screen, leaves the contents and the order of every collection of
\* the state unchanged.
OnlyReducerChangesCollections ==
  [][(nCalls' = nCalls /\ load'.pc = load.pc /\ clear' = clear) =>
       \A f \in Collections : state'[f] = state[f]]_vars

TaskFrame == {"id", "title", "isTop3", "createdAt", "date"}

SaveReflectionInPlace ==
  [][(nCalls' = nCalls + 1 /\ calls'[Len(calls')].op = "saveWeeklyReflection") =>
       LET old == state.weeklyReflections
           new == state'.weeklyReflections
           week == calls'[Len(calls')].arg.weekStartDate
           i == FindIndex(old, "weekStartDate", week)
       IN  IF i # 0
           THEN /\ Len(new) = Len(old)
                /\ new[i].weekStartDate = week
                /\ new[i].id = old[i].id
                /\ new[i].createdAt = old[i].createdAt
           ELSE /\ Len(new) = Len(old) + 1
                /\ SubSeq(new, 1, Len(old)) = old
                /\ new[Len(new)].weekStartDate = week
                /\ new[Len(new)].id \notin IdsOf(old)
                /\ new[Len(new)].createdAt = toISOString(now)]_vars

AddOps == {"addTask", "addSession", "addWeeklyGoal", "addYearGoal"}

\* the collection an add call appends to
AddsTo(op) ==
  CASE op = "addTask" -> "tasks"
    [] op = "addSession" -> "sessions"
    [] op = "addWeeklyGoal" -> "weeklyGoals"
    [] op = "addYearGoal" -> "yearGoals"

\* the record carries the fields the screen passed to the add call; for a
\* session these are the focus screen's values at the call
CarriesCallerFields(op, rec, screen) ==
  CASE op = "addTask" ->
         /\ DOMAIN rec = {"id", "title", "isCompleted", "isTop3", "createdAt",
                          "completedAt", "date"}
         /\ rec.title \in Titles /\ ~rec.isCompleted /\ rec.completedAt = null
         /\ rec.date = getToday
    [] op = "addSession" ->
         /\ DOMAIN rec = {"id", "startAt", "endAt", "durationMinutes", "date",
                          "isCompleted", "energyScore", "energyTag"}
         /\ rec.startAt = screen.sessionStartTime /\ rec.endAt = toISOString(now)
         /\ rec.durationMinutes = screen.duration /\ rec.date = getToday
         /\ rec.isCompleted /\ rec.energyScore \in {null, screen.energyScore}
    [] op = "addWeeklyGoal" ->
         /\ DOMAIN rec = {"id", "title", "isCompleted", "createdAt", "weekStartDate"}
         /\ rec.title \in GoalTitles /\ ~rec.isCompleted /\ rec.weekStartDate = 1
    [] op = "addYearGoal" ->
         /\ ~rec.isCompleted
         /\ \E form \in GoalForms : \A f \in DOMAIN form : rec[f] = form[f]

LoadFailed ==
  \/ load.pc = "rejected"
  \/ load.pc = "done" /\ \E k \in STORAGE_KEYS : storage[k] = Corrupt

\* C28: after a failed load no write replaces the valid text of a
\* collection by a text that lacks one of its records (no screen of this
\* specification deletes a record or clears the data).
NoLossAfterFailedLoad ==
  [][LoadFailed =>
       \A k \in STORAGE_KEYS \ {"SETTINGS"} :
         storage[k].kind = "json" =>
           /\ storage'[k].kind = "json"
           /\ \A i \in 1..Len(storage[k].text) :
                storage[k].text[i].id \in IdsOf(storage'[k].text)]_vars

\* C29: once the calls have stopped, the current state was rendered and
\* saved, and every setItem call has resolved, none rejected, in whatever
\* order, the six stored texts are those of the current state.
StorageConverges ==
  (Settled /\ nRejected = 0 /\ state \in saved) => storage = Snapshot(state)

\* C30: no save is started while isLoading is true: a step that issues a
\* setItem call finds the state not loading, and while the load has not
\* finished no setItem call is in flight and storage is not written.
NoSaveWhileLoading ==
  /\ [][(\E k \in STORAGE_KEYS : ~(writes'[k] \subseteq writes[k])) =>
          ~state.isLoading]_vars
  /\ [](load.pc \in {"idle", "reading"} => state.isLoading /\ NoWrite /\ saved = {})
  /\ [][load.pc \in {"idle", "reading"} => storage' = storage]_vars

\* the focus screen added a session while the load was reading, and the
\* provider rendered the changed sessions without saving them
NoSaveWhileLoadingWitness ==
  /\ load.pc = "reading"
  /\ state.sessions # <<>>
  /\ rendered = state
  /\ changed = {}
  /\ NoWrite
  /\ saved = {}
  /\ storage \in {EmptyStorage, SessionsStorage}

\* the ids of the records of a collection, in the collection's order
IdSeq(arr) == [i \in 1..Len(arr) |-> arr[i].id]

\* C31: a toggle or an update addressing a record by id, also one issued by a
\* handler that captured the state before a delete, leaves the ids of its
\* collection and their order as they were, so that no deleted id reappears;
\* a delete removes the records with the id and keeps the others in order
DeletedStaysDeleted ==
  [][(nCalls' = nCalls + 1 /\ calls'[Len(calls')].op \in ByIdOps) =>
       LET call == calls'[Len(calls')]
           f == TargetOf(call.op)
       IN  IF call.op \in {"deleteTask", "deleteWeeklyGoal", "deleteYearGoal"}
           THEN IdSeq(state'[f]) = SelectSeq(IdSeq(state[f]), LAMBDA id : id # call.arg)
           ELSE IdSeq(state'[f]) = IdSeq(state[f])]_vars

\* a year goal was deleted and then toggled by the handler of the render that
\* still shows it; the goal is absent and the other goal remains
DeletedStaysDeletedWitness ==
  /\ Len(calls) = 2
  /\ calls[1].op = "deleteYearGoal" /\ calls[2].op = "toggleYearGoal"
  /\ calls[1].arg = calls[2].arg
  /\ calls[1].arg \in IdsOf(calls[1].pre.yearGoals)
  /\ calls[2].arg \in IdsOf(rendered.yearGoals)
  /\ calls[2].arg \notin IdsOf(state.yearGoals)
  /\ state.yearGoals # <<>>

\* C32: the step in which loadData dispatches LOAD_DATA leaves every one of
\* the six fields equal to what its stored text decodes to (the empty list
\* for a collection never stored, the stored settings merged over
\* DEFAULT_SETTINGS), whatever was dispatched while the state was loading
LoadReplacesWholesale ==
  [][(load.pc = "reading" /\ load'.pc = "done" /\ ~ParseThrows(storage)) =>
       /\ ~state'.isLoading
       /\ \A k \in STORAGE_KEYS : state'[FieldOf(k)] = Decoded(k)]_vars

\* the load has just resolved, not yet rendered, after the focus screen had
\* added a session to the loading state: the state holds the stored session
\* only
LoadReplacesWholesaleWitness ==
  /\ load.pc = "done" /\ ~state.isLoading /\ rendered.isLoading
  /\ Len(calls) = 1 /\ calls[1].op = "addSession" /\ calls[1].pre.isLoading
  /\ storage["SESSIONS"].kind = "json"
  /\ state.sessions = <<OldSession>>
  /\ calls[1].arg \notin IdsOf(state.sessions)

\* the field of the state a store call works on
OwnField(op) ==
  CASE op \in {"addTask", "toggleTask", "deleteTask"} -> "tasks"
    [] op = "addSession" -> "sessions"
    [] op \in {"addWeeklyGoal", "toggleWeeklyGoal", "deleteWeeklyGoal"} -> "weeklyGoals"
    [] op = "saveWeeklyReflection" -> "weeklyReflections"
    [] op \in {"addYearGoal", "updateYearGoal", "toggleYearGoal", "deleteYearGoal"} ->
         "yearGoals"
    [] op = "updateSettings" -> "settings"

\* C33: a task, session, weekly-goal, reflection, year-goal or settings call
\* changes no field of the state but its own and leaves the loading flag as
\* it was; a step that changes more than one of the six fields is the load
\* dispatching LOAD_DATA or a clearAllData call dispatching CLEAR_ALL_DATA
OwnCollectionOnly ==
  [][LET touched == {f \in Deps : state'[f] # state[f]}
     IN  /\ (nCalls' = nCalls + 1 /\ calls'[Len(calls')].op # "clearAllData") =>
               /\ touched \subseteq {OwnField(calls'[Len(calls')].op)}
               /\ state'.isLoading = state.isLoading
         /\ Cardinality(touched) > 1 =>
               \/ load.pc = "reading" /\ load'.pc = "done"
               \/ \E c \in 1..MaxClears : clear[c].pc = "removing" /\ clear'[c].pc = "done"]_vars

\* a year goal was toggled after a reflection was saved, over a store that
\* holds records of every kind: both calls changed their own field, and the
\* other four fields are those of the state before the first call
OwnCollectionOnlyWitness ==
  /\ Len(calls) = 2
  /\ calls[1].op = "saveWeeklyReflection" /\ calls[2].op = "toggleYearGoal"
  /\ \A f \in Collections : calls[1].pre[f] # <<>>
  /\ calls[2].pre.weeklyReflections # calls[1].pre.weeklyReflections
  /\ state.yearGoals # calls[2].pre.yearGoals
  /\ \A f \in Deps \ {"weeklyReflections", "yearGoals"} : state[f] = calls[1].pre[f]

\* C34: toggleYearGoal(id) twice in a row on an existing goal restores its
\* isCompleted but not its progress: a goal that started not completed ends
\* not completed with progress 100, one that started completed ends completed
\* with the progress it had
ToggleYearGoalTwice ==
  (/\ Len(calls) = 2
   /\ calls[1].op = "toggleYearGoal" /\ calls[2].op = "toggleYearGoal"
   /\ calls[1].arg = calls[2].arg) =>
    \A i \in 1..Len(calls[1].pre.yearGoals), j \in 1..Len(state.yearGoals) :
      (calls[1].pre.yearGoals[i].id = calls[1].arg /\ state.yearGoals[j].id = calls[1].arg) =>
        /\ state.yearGoals[j].isCompleted = calls[1].pre.yearGoals[i].isCompleted
        /\ state.yearGoals[j].progress =
             IF calls[1].pre.yearGoals[i].isCompleted
             THEN calls[1].pre.yearGoals[i].progress ELSE 100

\* a step in which the store's addSession is called
AddsSession == nCalls' = nCalls + 1 /\ calls'[Len(calls')].op = "addSession"

\* C35: a session is added only from the feedback dialog, with the start
\* time the dialog's render holds; the dialog opens only in the step in which
\* the interval finds the countdown at its last second and sets it to 0; a
\* start time is held only by a running countdown or by one whose dialog is
\* open; and a step that ends a running countdown without opening the dialog
\* (stop or back) leaves the store's state as it was and no start time behind
SessionOnlyForCompletedCountdown ==
  /\ [](focus.sessionStartTime # null => focus.status = "running" \/ focus.showFeedback)
  /\ [][/\ AddsSession =>
             /\ focus.seen.showFeedback
             /\ focus.seen.sessionStartTime # null
             /\ state'.sessions[Len(state'.sessions)].startAt = focus.seen.sessionStartTime
        /\ (~focus.showFeedback /\ focus'.showFeedback) =>
             /\ focus.timer /\ focus.remainingSeconds <= 1
             /\ focus'.remainingSeconds = 0
        /\ (focus.status = "running" /\ focus'.status = "idle" /\ ~focus'.showFeedback) =>
             /\ state' = state
             /\ focus'.sessionStartTime = null]_vars

\* after a countdown that reached zero had its session added, a second
\* countdown was started and has just been stopped: the store holds the one
\* session
SessionOnlyForCompletedCountdownWitness ==
  /\ Len(calls) = 1 /\ calls[1].op = "addSession"
  /\ Len(state.sessions) = 1
  /\ focus.seen.status = "running" /\ focus.seen.sessionStartTime # null
  /\ focus.status = "idle" /\ ~focus.showFeedback /\ focus.sessionStartTime = null

\* C36: a completed countdown yields at most one session: a step that
\* answers the dialog leaves sessionStartTime null, and a session is added
\* only while the dialog is open and sessionStartTime holds the start of a
\* countdown, so that a further save or skip adds none
OneSessionPerCountdown ==
  [][/\ (focus.seen.showFeedback /\ ~focus'.showFeedback /\ focus'.seen = focus.seen) =>
          focus'.sessionStartTime = null
     /\ AddsSession => focus.showFeedback /\ focus.sessionStartTime # null]_vars

\* C37: the duration selected on the focus screen never exceeds the
\* settings' maxPomodoroMinutes, and neither does the durationMinutes of a
\* session at the step that adds it
DurationWithinMax ==
  /\ [](focus.duration <= state.settings.maxPomodoroMinutes)
  /\ [][AddsSession =>
          state'.sessions[Len(state'.sessions)].durationMinutes
            <= state.settings.maxPomodoroMinutes]_vars

\* a step in which the countdown's interval callback takes time off
TickStep ==
  /\ focus.timer /\ focus'.seen = focus.seen
  /\ focus'.remainingSeconds < focus.remainingSeconds
  /\ Cells(focus') = Cells(focus) \/ (~focus.showFeedback /\ focus'.showFeedback)

\* C38: remainingSeconds is within 0..duration*60 (a minute counting
\* SecondsPerMinute ticks) in every state, a tick takes exactly one second
\* off and only while the status is running, and the duration does not
\* change while the status is running
CountdownWithinDuration ==
  /\ [](focus.remainingSeconds \in 0..(focus.duration * SecondsPerMinute))
  /\ [][/\ TickStep =>
             /\ focus.status = "running"
             /\ focus'.remainingSeconds = focus.remainingSeconds - 1
        /\ (focus.status = "running" /\ focus'.status = "running") =>
             focus'.duration = focus.duration]_vars

====
